---- MODULE Spec2Model ----
(***************************************************************************)
(* Model of the selection engine of the AI question paper generator:       *)
(*   src/selection_engine/criteria_parser.py   (CriteriaParser)            *)
(*   src/selection_engine/filter_manager.py    (FilterManager)             *)
(*   src/ai_model/relevance_scorer.py          (RelevanceScorer)           *)
(*   src/selection_engine/question_selector.py (QuestionSelector)          *)
(*   src/enhanced_features.py                  (EnhancedQuestionSelector)  *)
(*                                                                         *)
(* Python values are modelled as follows.  A str is a sequence of          *)
(* one-character strings, so that lower(), strip(), split() and the `in`   *)
(* substring test are computed character by character.  A dict is a        *)
(* function whose DOMAIN is its key set.  A raw (user supplied) criteria   *)
(* value carries its Python type in a tag: [t |-> "str"|"int"|"bool"|      *)
(* "list", v |-> ...].  Floating point scores are modelled as exact        *)
(* rationals <<numerator, denominator>>.                                   *)
(***************************************************************************)
EXTENDS Integers, Sequences, FiniteSets, TLC

VARIABLES
    questions,          \* QuestionSelector.questions: the loaded bank (a list of dicts)
    question_index,     \* QuestionSelector.question_index: id -> question
    criteria,           \* the raw criteria mapping of the last call
    parsed_criteria,    \* CriteriaParser.parse_criteria(criteria)
    filtered_questions, \* FilterManager.apply_filters(...) of the last call
    refiltered,         \* apply_filters applied to filtered_questions again
    narrowed_criteria,  \* a criteria at least as restrictive as parsed_criteria
    narrowed,           \* apply_filters(questions, narrowed_criteria)
    selected_questions, \* the list returned by select_questions
    outcome,            \* "none" | "returned" | an exception name when the call raised
    pc,                 \* the operation that produced the current state
    loaded_bank,        \* the argument of the last QuestionSelector.load_questions call
    statistics,         \* the dict returned by the last get_statistics call
    unit_bank,          \* EnhancedQuestionSelector.questions
    selected_units,     \* arguments of the last select_questions_by_units_and_marks
    total_marks,        \*   call: selected_units, total_marks and the distribution
    supplied,           \*   supplied: NoneV, or DictV of a list of <<key, count>>
    marks_distribution, \* the distribution in use in that call: supplied or computed
    draws,              \* the questions drawn for each entry of marks_distribution
    result,             \* the dict returned by select_questions_by_units_and_marks
    available_units,    \* the list returned by the last get_available_units call
    custom_filters,     \* FilterManager.custom_filters: <<name, function>> as registered
    filter_calls,       \* the filters that the last apply_filters call ran, in order
    diverse_target      \* the target_count given to the last _diverse_selection call

\* State of the question bank history and of the statistics call.
bank_vars == <<loaded_bank, statistics>>

\* State of the EnhancedQuestionSelector.
marks_vars == <<unit_bank, selected_units, total_marks, supplied, marks_distribution,
                draws, result>>

\* State of get_available_units and of the custom filters.
extra_vars == <<available_units, custom_filters, filter_calls, diverse_target>>

vars == <<questions, question_index, criteria, parsed_criteria, filtered_questions,
          refiltered, narrowed_criteria, narrowed, selected_questions, outcome, pc,
          bank_vars, marks_vars, extra_vars>>

\* The empty dict / empty list.
Empty == <<>>

(***************************************************************************)
(* Python built-ins                                                        *)
(***************************************************************************)

Range(s) == {s[i] : i \in DOMAIN s}

Min(a, b) == IF a <= b THEN a ELSE b
Max(a, b) == IF a >= b THEN a ELSE b

UpperChars == <<"A","B","C","D","E","F","G","H","I","J","K","L","M",
                "N","O","P","Q","R","S","T","U","V","W","X","Y","Z">>
LowerChars == <<"a","b","c","d","e","f","g","h","i","j","k","l","m",
                "n","o","p","q","r","s","t","u","v","w","x","y","z">>

LowerOf == [c \in Range(UpperChars) |->
               LowerChars[CHOOSE i \in DOMAIN UpperChars : UpperChars[i] = c]]

LowerChar(c) == IF c \in DOMAIN LowerOf THEN LowerOf[c] ELSE c

\* str.lower()
RECURSIVE Lower(_)
Lower(s) == IF s = <<>> THEN <<>> ELSE <<LowerChar(Head(s))>> \o Lower(Tail(s))

Whitespace == {" ", "\t", "\n"}

RECURSIVE LStrip(_)
LStrip(s) == IF s # <<>> /\ Head(s) \in Whitespace THEN LStrip(Tail(s)) ELSE s

RECURSIVE RStrip(_)
RStrip(s) ==
    IF s # <<>> /\ s[Len(s)] \in Whitespace THEN RStrip(SubSeq(s, 1, Len(s) - 1)) ELSE s

\* str.strip()
Strip(s) == RStrip(LStrip(s))

\* sub in s, for two str
Contains(sub, s) ==
    \E i \in 1..(Len(s) - Len(sub) + 1) : SubSeq(s, i, i + Len(sub) - 1) = sub

\* s.split(sep) for the one-character separators in seps (re.split(r'[,;]', s) too)
RECURSIVE SplitAcc(_, _, _)
SplitAcc(s, seps, cur) ==
    IF s = <<>> THEN <<cur>>
    ELSE IF Head(s) \in seps THEN <<cur>> \o SplitAcc(Tail(s), seps, <<>>)
    ELSE SplitAcc(Tail(s), seps, Append(cur, Head(s)))

Split(s, seps) == SplitAcc(s, seps, <<>>)

Digits == <<"0","1","2","3","4","5","6","7","8","9">>

IsDigit(c) == \E i \in DOMAIN Digits : Digits[i] = c

DigitVal(c) == (CHOOSE i \in DOMAIN Digits : Digits[i] = c) - 1

RECURSIVE DigitsVal(_, _)
DigitsVal(s, acc) == IF s = <<>> THEN acc ELSE DigitsVal(Tail(s), 10 * acc + DigitVal(Head(s)))

RECURSIVE NatToStr(_)
NatToStr(n) == IF n < 10 THEN <<Digits[n + 1]>> ELSE NatToStr(n \div 10) \o <<Digits[(n % 10) + 1]>>

\* str(x) of a tagged value that is no list
PyStr(x) ==
    CASE x.t = "str"  -> x.v
      [] x.t = "int"  -> IF x.v < 0 THEN <<"-">> \o NatToStr(0 - x.v) ELSE NatToStr(x.v)
      [] x.t = "bool" -> IF x.v THEN <<"T","r","u","e">> ELSE <<"F","a","l","s","e">>

\* int(x): [exc |-> "none", v |-> n], or the exception int() raises.  A str is
\* stripped, then read as an optional sign and one or more decimal digits.
PyInt(x) ==
    CASE x.t = "int"  -> [exc |-> "none", v |-> x.v]
      [] x.t = "bool" -> [exc |-> "none", v |-> IF x.v THEN 1 ELSE 0]
      [] x.t = "list" -> [exc |-> "TypeError", v |-> 0]
      [] x.t = "str"  ->
            LET s    == Strip(x.v)
                neg  == s # <<>> /\ Head(s) = "-"
                body == IF s # <<>> /\ Head(s) \in {"-", "+"} THEN Tail(s) ELSE s
            IN  IF body # <<>> /\ \A i \in DOMAIN body : IsDigit(body[i])
                THEN [exc |-> "none",
                      v |-> IF neg THEN 0 - DigitsVal(body, 0) ELSE DigitsVal(body, 0)]
                ELSE [exc |-> "ValueError", v |-> 0]

\* d.get(k, default)
Get(d, k, default) == IF k \in DOMAIN d THEN d[k] ELSE default

\* d with d[k] = v
Put(d, k, v) == [x \in (DOMAIN d) \cup {k} |-> IF x = k THEN v ELSE d[x]]

(***************************************************************************)
(* CriteriaParser (criteria_parser.py)                                     *)
(***************************************************************************)

\* Words of the fixed vocabularies, as str.
w_easy   == <<"e","a","s","y">>
w_medium == <<"m","e","d","i","u","m">>
w_hard   == <<"h","a","r","d">>
w_expert == <<"e","x","p","e","r","t">>
w_text   == <<"t","e","x","t">>
w_essay  == <<"e","s","s","a","y">>
w_code   == <<"c","o","d","e">>
w_numeric         == <<"n","u","m","e","r","i","c">>
w_multiple_choice == <<"m","u","l","t","i","p","l","e","_","c","h","o","i","c","e">>
w_true_false      == <<"t","r","u","e","_","f","a","l","s","e">>

valid_difficulties == <<w_easy, w_medium, w_hard, w_expert>>
valid_types == <<w_text, w_multiple_choice, w_true_false, w_essay, w_numeric, w_code>>

DefaultCount == 20
CountCap == 1000

\* The terms of a topic/difficulty/type value before validation: a str is split on
\* commas, a list is converted element by element, anything else becomes one term.
RawTerms(x) ==
    CASE x.t = "str"  -> Split(x.v, {","})
      [] x.t = "list" -> [i \in DOMAIN x.v |-> PyStr(x.v[i])]
      [] OTHER        -> <<PyStr(x)>>

_parse_topic(topic) ==
    LET topics == IF topic.t \in {"str", "list"}
                  THEN [i \in DOMAIN RawTerms(topic) |-> Strip(RawTerms(topic)[i])]
                  ELSE RawTerms(topic)
    IN  SelectSeq(topics, LAMBDA t : t # <<>>)

_parse_difficulty_nodefault(difficulty) ==
    LET difficulties ==
            IF difficulty.t \in {"str", "list"}
            THEN [i \in DOMAIN RawTerms(difficulty) |-> Lower(Strip(RawTerms(difficulty)[i]))]
            ELSE [i \in DOMAIN RawTerms(difficulty) |-> Lower(RawTerms(difficulty)[i])]
    IN  SelectSeq(difficulties, LAMBDA d : d \in Range(valid_difficulties))

_parse_difficulty(difficulty) ==
    LET difficulties ==
            IF difficulty.t \in {"str", "list"}
            THEN [i \in DOMAIN RawTerms(difficulty) |-> Lower(Strip(RawTerms(difficulty)[i]))]
            ELSE [i \in DOMAIN RawTerms(difficulty) |-> Lower(RawTerms(difficulty)[i])]
        valid == SelectSeq(difficulties, LAMBDA d : d \in Range(valid_difficulties))
    IN  IF valid # <<>> THEN valid ELSE <<w_medium>>

_parse_type(q_type) ==
    LET types ==
            IF q_type.t \in {"str", "list"}
            THEN [i \in DOMAIN RawTerms(q_type) |-> Lower(Strip(RawTerms(q_type)[i]))]
            ELSE [i \in DOMAIN RawTerms(q_type) |-> Lower(RawTerms(q_type)[i])]
        valid == SelectSeq(types, LAMBDA t : t \in Range(valid_types))
    IN  IF valid # <<>> THEN valid ELSE <<w_text>>

_parse_keywords(keywords) ==
    LET ks == CASE keywords.t = "str"  -> Split(keywords.v, {",", ";"})
                [] keywords.t = "list" -> [i \in DOMAIN keywords.v |-> PyStr(keywords.v[i])]
                [] OTHER               -> <<PyStr(keywords)>>
    IN  [i \in DOMAIN SelectSeq(ks, LAMBDA k : Strip(k) # <<>>) |->
            Strip(SelectSeq(ks, LAMBDA k : Strip(k) # <<>>)[i])]

\* Each returns [exc |-> "none", v |-> n]; exc would name an exception that escapes.
_parse_count_valueerror_only(count) ==
    LET r == PyInt(count)
    IN  IF r.exc = "ValueError" THEN [exc |-> "none", v |-> DefaultCount]
        ELSE IF r.exc # "none" THEN r
        ELSE IF r.v <= 0 THEN [exc |-> "none", v |-> DefaultCount]
        ELSE [exc |-> "none", v |-> IF r.v < CountCap THEN r.v ELSE CountCap]

_parse_count_zero_ok(count) ==
    LET r == PyInt(count)
    IN  IF r.exc \in {"ValueError", "TypeError"} THEN [exc |-> "none", v |-> DefaultCount]
        ELSE IF r.v < 0 THEN [exc |-> "none", v |-> DefaultCount]
        ELSE [exc |-> "none", v |-> IF r.v < CountCap THEN r.v ELSE CountCap]

_parse_count(count) ==
    LET r == PyInt(count)
    IN  IF r.exc \in {"ValueError", "TypeError"} THEN [exc |-> "none", v |-> DefaultCount]
        ELSE IF r.v <= 0 THEN [exc |-> "none", v |-> DefaultCount]
        ELSE [exc |-> "none", v |-> IF r.v < CountCap THEN r.v ELSE CountCap]

_parse_length(length) ==
    LET r == PyInt(length)
    IN  IF r.exc \in {"ValueError", "TypeError"} THEN [exc |-> "none", v |-> 0]
        ELSE IF r.v < 0 THEN [exc |-> "none", v |-> 0]
        ELSE [exc |-> "none", v |-> r.v]

TruthyWords == {<<"t","r","u","e">>, <<"y","e","s">>, <<"1">>, <<"o","n">>}

_parse_boolean(value) ==
    CASE value.t = "bool" -> value.v
      [] value.t = "str"  -> Lower(value.v) \in TruthyWords
      [] value.t = "int"  -> value.v # 0
      [] value.t = "list" -> value.v # <<>>

\* The keys parse_criteria normalises; every other key is passed through unchanged.
ParsedKeys == {"topic", "difficulty", "type", "keywords", "count", "exclude_keywords",
               "text_contains", "min_length", "max_length", "diversity", "reference_text"}

_validate_criteria_noswap(c) ==
    IF "count" \in DOMAIN c /\ c["count"] > CountCap THEN Put(c, "count", CountCap) ELSE c

\* the overlapping keywords are taken out of exclude_keywords
_validate_criteria_resolved(c) ==
    LET kept == IF "keywords" \in DOMAIN c /\ "exclude_keywords" \in DOMAIN c
                THEN Put(c, "exclude_keywords",
                         SelectSeq(c["exclude_keywords"],
                                   LAMBDA k : k \notin Range(c["keywords"])))
                ELSE c
    IN  _validate_criteria_noswap(kept)

_validate_criteria(c) ==
    LET swapped ==
            IF "min_length" \in DOMAIN c /\ "max_length" \in DOMAIN c
               /\ c["min_length"] > c["max_length"]
            THEN [k \in DOMAIN c |->
                    CASE k = "min_length" -> c["max_length"]
                      [] k = "max_length" -> c["min_length"]
                      [] OTHER            -> c[k]]
            ELSE c
    IN  IF "count" \in DOMAIN swapped /\ swapped["count"] > CountCap
        THEN Put(swapped, "count", CountCap)
        ELSE swapped

\* parse_criteria(criteria): [exc |-> "none", v |-> parsed], or the exception that
\* escaped from one of the field parsers (the first one in call order).
parse_criteria(c) ==
    LET ints == [k \in (DOMAIN c) \cap {"count", "min_length", "max_length"} |->
                    IF k = "count" THEN _parse_count(c[k]) ELSE _parse_length(c[k])]
        parsed == [k \in DOMAIN c |->
                    CASE k = "topic"            -> _parse_topic(c[k])
                      [] k = "difficulty"       -> _parse_difficulty(c[k])
                      [] k = "type"             -> _parse_type(c[k])
                      [] k = "keywords"         -> _parse_keywords(c[k])
                      [] k = "exclude_keywords" -> _parse_keywords(c[k])
                      [] k = "text_contains"    -> PyStr(c[k])
                      [] k = "reference_text"   -> PyStr(c[k])
                      [] k = "diversity"        -> _parse_boolean(c[k])
                      [] k \in DOMAIN ints      -> ints[k].v
                      [] OTHER                  -> c[k]]
    IN  CASE "count" \in DOMAIN ints /\ ints["count"].exc # "none" ->
                [exc |-> ints["count"].exc, v |-> Empty]
          [] "min_length" \in DOMAIN ints /\ ints["min_length"].exc # "none" ->
                [exc |-> ints["min_length"].exc, v |-> Empty]
          [] "max_length" \in DOMAIN ints /\ ints["max_length"].exc # "none" ->
                [exc |-> ints["max_length"].exc, v |-> Empty]
          [] OTHER -> [exc |-> "none", v |-> _validate_criteria(parsed)]

(***************************************************************************)
(* FilterManager (filter_manager.py).  A question is a dict with the keys  *)
(* id, question (its text), topic, difficulty, type and keywords, any of   *)
(* which may be missing; criteria are in the parsed form (lists of str,    *)
(* int lengths), which is what select_questions passes.  No custom filter  *)
(* is registered (custom_filters = {}), so the loop over them does nothing.*)
(***************************************************************************)

\* bool(criteria.get(key)) for a key holding a list or a str: a missing key and
\* an empty value are falsy.
Truthy(c, key) == key \in DOMAIN c /\ c[key] # <<>>

\* bool(criteria.get(key)) for a key holding an int: a missing key and 0 are falsy.
TruthyInt(c, key) == key \in DOMAIN c /\ c[key] # 0

RECURSIVE LowerAll(_)
LowerAll(xs) == IF xs = <<>> THEN <<>> ELSE <<Lower(Head(xs))>> \o LowerAll(Tail(xs))

\* containment tested in one direction only
filter_by_topic_oneway(qs, topics) ==
    SelectSeq(qs, LAMBDA q :
        LET question_topic == Lower(Get(q, "topic", <<>>))
        IN  \E i \in DOMAIN topics : Contains(Lower(topics[i]), question_topic))

filter_by_topic(qs, topics) ==
    SelectSeq(qs, LAMBDA q :
        LET question_topic == Lower(Get(q, "topic", <<>>))
        IN  \E i \in DOMAIN topics :
                \/ Contains(Lower(topics[i]), question_topic)
                \/ Contains(question_topic, Lower(topics[i])))

\* a loop that starts at the second question
filter_by_difficulty_skipfirst(qs, difficulties) ==
    SelectSeq(IF qs = <<>> THEN qs ELSE Tail(qs), LAMBDA q :
        Lower(Get(q, "difficulty", <<>>)) \in Range(LowerAll(difficulties)))

filter_by_difficulty(qs, difficulties) ==
    SelectSeq(qs, LAMBDA q :
        Lower(Get(q, "difficulty", <<>>)) \in Range(LowerAll(difficulties)))

filter_by_type(qs, types) ==
    SelectSeq(qs, LAMBDA q : Lower(Get(q, "type", <<>>)) \in Range(LowerAll(types)))

\* keyword in question_text or any(keyword in qk for qk in question_keywords),
\* the keyword being lower-cased already
KeywordHits(q, keyword) ==
    \/ Contains(keyword, Lower(Get(q, "question", <<>>)))
    \/ \E j \in DOMAIN Get(q, "keywords", <<>>) :
            Contains(keyword, Lower(Get(q, "keywords", <<>>)[j]))

\* the questions that match the first keyword, then those that match the
\* second, and so on
RECURSIVE filter_by_keywords_per_keyword(_, _)
filter_by_keywords_per_keyword(qs, keywords) ==
    IF keywords = <<>> THEN <<>>
    ELSE SelectSeq(qs, LAMBDA q : KeywordHits(q, Lower(Head(keywords))))
         \o filter_by_keywords_per_keyword(qs, Tail(keywords))

filter_by_keywords(qs, keywords) ==
    SelectSeq(qs, LAMBDA q : \E i \in DOMAIN keywords : KeywordHits(q, Lower(keywords[i])))

\* The patterns of this model are either free of regex metacharacters, and then
\* pattern.search under re.IGNORECASE is a case-insensitive substring test, or
\* hold an unclosed "[", and then re.compile raises re.error and the fallback
\* tests text_pattern.lower() in question.lower().
RegexInvalid(pattern) == "[" \in Range(pattern)

re_search_ignorecase(pattern, text) == Contains(Lower(pattern), Lower(text))

filter_by_text_content(qs, text_pattern) ==
    IF RegexInvalid(text_pattern)
    THEN SelectSeq(qs, LAMBDA q : Contains(Lower(text_pattern), Lower(Get(q, "question", <<>>))))
    ELSE SelectSeq(qs, LAMBDA q : re_search_ignorecase(text_pattern, Get(q, "question", <<>>)))

filter_exclude_keywords(qs, exclude_keywords) ==
    SelectSeq(qs, LAMBDA q :
        ~ \E i \in DOMAIN exclude_keywords : KeywordHits(q, Lower(exclude_keywords[i])))

filter_by_min_length(qs, min_length) ==
    SelectSeq(qs, LAMBDA q : Len(Get(q, "question", <<>>)) >= min_length)

filter_by_max_length(qs, max_length) ==
    SelectSeq(qs, LAMBDA q : Len(Get(q, "question", <<>>)) <= max_length)

apply_filters(qs, c) ==
    LET f1 == IF Truthy(c, "topic")            THEN filter_by_topic(qs, c["topic"]) ELSE qs
        f2 == IF Truthy(c, "difficulty")       THEN filter_by_difficulty(f1, c["difficulty"]) ELSE f1
        f3 == IF Truthy(c, "type")             THEN filter_by_type(f2, c["type"]) ELSE f2
        f4 == IF Truthy(c, "keywords")         THEN filter_by_keywords(f3, c["keywords"]) ELSE f3
        f5 == IF Truthy(c, "text_contains")    THEN filter_by_text_content(f4, c["text_contains"]) ELSE f4
        f6 == IF Truthy(c, "exclude_keywords") THEN filter_exclude_keywords(f5, c["exclude_keywords"]) ELSE f5
        f7 == IF TruthyInt(c, "min_length")      THEN filter_by_min_length(f6, c["min_length"]) ELSE f6
        f8 == IF TruthyInt(c, "max_length")      THEN filter_by_max_length(f7, c["max_length"]) ELSE f7
    IN  f8

(***************************************************************************)
(* Scores.  A float is modelled as the exact rational <<n, d>>, d > 0, in  *)
(* lowest terms (the products, sums and quotients of the scorer are exact  *)
(* here and rounded in the code; candidates built from the same operands   *)
(* get the same score in both).                                            *)
(***************************************************************************)

RECURSIVE GCD(_, _)
GCD(a, b) == IF b = 0 THEN a ELSE GCD(b, a % b)

Abs(n) == IF n < 0 THEN 0 - n ELSE n

Rat(n, d) == LET g == GCD(Abs(n), d) IN <<n \div g, d \div g>>

RatAdd(x, y) == Rat(x[1] * y[2] + y[1] * x[2], x[2] * y[2])
RatMul(x, y) == Rat(x[1] * y[1], x[2] * y[2])
RatDivInt(x, k) == Rat(x[1], x[2] * k)
RatLess(x, y) == x[1] * y[2] < y[1] * x[2]

RECURSIVE RatSum(_)
RatSum(xs) == IF xs = <<>> THEN Rat(0, 1) ELSE RatAdd(Head(xs), RatSum(Tail(xs)))

(***************************************************************************)
(* RelevanceScorer (relevance_scorer.py)                                   *)
(***************************************************************************)

\* _calculate_text_similarity for the texts of this model, which are single
\* words: two different words share no TF-IDF term, two equal ones share all.
_calculate_text_similarity(text1, text2) ==
    IF text1 = <<>> \/ text2 = <<>> THEN Rat(0, 1)
    ELSE IF Lower(text1) = Lower(text2) THEN Rat(1, 1)
    ELSE Rat(0, 1)

RECURSIVE RatMax(_)
RatMax(xs) ==
    IF Len(xs) = 1 THEN xs[1]
    ELSE LET m == RatMax(Tail(xs)) IN IF RatLess(Head(xs), m) THEN m ELSE Head(xs)

_calculate_topic_relevance(q, c) ==
    LET question_topic == Lower(Get(q, "topic", <<>>))
        target_topics  == LowerAll(Get(c, "topic", <<>>))
    IN  IF question_topic \in Range(target_topics) THEN Rat(1, 1)
        ELSE IF \E i \in DOMAIN target_topics :
                    \/ Contains(target_topics[i], question_topic)
                    \/ Contains(question_topic, target_topics[i])
             THEN Rat(7, 10)
        ELSE IF target_topics = <<>> THEN Rat(0, 1)
        ELSE RatMax([i \in DOMAIN target_topics |->
                        _calculate_text_similarity(question_topic, target_topics[i])])

\* ' '.join(xs)
RECURSIVE Join(_)
Join(xs) ==
    IF xs = <<>> THEN <<>>
    ELSE IF Len(xs) = 1 THEN xs[1]
    ELSE xs[1] \o <<" ">> \o Join(Tail(xs))

_calculate_keyword_relevance(q, c) ==
    LET all_question_text ==
            Lower(Get(q, "question", <<>>)) \o <<" ">> \o Join(Get(q, "keywords", <<>>))
        target_keywords == LowerAll(Get(c, "keywords", <<>>))
        matches == Cardinality({i \in DOMAIN target_keywords :
                                    Contains(target_keywords[i], all_question_text)})
    IN  IF target_keywords = <<>> THEN Rat(0, 1) ELSE Rat(matches, Len(target_keywords))

\* [exc, v] as for the parser.  target_difficulty = criteria.get('difficulty',
\* '').lower(): with the key missing this is '' and the match is 1.0; with the
\* key present the parsed difficulty is a list, a list has no lower(), and the
\* call raises AttributeError before the level comparison is reached.
_calculate_difficulty_match(q, c) ==
    IF "difficulty" \in DOMAIN c
    THEN [exc |-> "AttributeError", v |-> Rat(0, 1)]
    ELSE [exc |-> "none", v |-> Rat(1, 1)]

_calculate_type_match(q, c) ==
    LET question_type == Lower(Get(q, "type", <<>>))
        target_types  == LowerAll(Get(c, "type", <<>>))
    IN  IF target_types = <<>> THEN Rat(1, 1)
        ELSE IF question_type \in Range(target_types) THEN Rat(1, 1) ELSE Rat(0, 1)

_calculate_semantic_similarity(q, c) ==
    IF Get(c, "reference_text", <<>>) = <<>> THEN Rat(1, 2)
    ELSE _calculate_text_similarity(Get(q, "question", <<>>), c["reference_text"])

\* a question scored against no criterion gets 0
_calculate_relevance_score_zero(q, c) ==
    LET scores ==
            (IF Truthy(c, "topic")
             THEN <<RatMul(_calculate_topic_relevance(q, c), Rat(3, 10))>> ELSE <<>>)
         \o (IF Truthy(c, "keywords")
             THEN <<RatMul(_calculate_keyword_relevance(q, c), Rat(25, 100))>> ELSE <<>>)
         \o (IF Truthy(c, "reference_text")
             THEN <<RatMul(_calculate_semantic_similarity(q, c), Rat(1, 10))>> ELSE <<>>)
    IN  [exc |-> "none", v |-> RatDivInt(RatSum(scores), Max(1, Len(scores)))]

\* [exc |-> "none", v |-> score], or the exception that escapes
_calculate_relevance_score(q, c) ==
    LET scores ==
            (IF Truthy(c, "topic")
             THEN <<RatMul(_calculate_topic_relevance(q, c), Rat(3, 10))>> ELSE <<>>)
         \o (IF Truthy(c, "keywords")
             THEN <<RatMul(_calculate_keyword_relevance(q, c), Rat(25, 100))>> ELSE <<>>)
         \o (IF Truthy(c, "difficulty")
             THEN <<RatMul(_calculate_difficulty_match(q, c).v, Rat(2, 10))>> ELSE <<>>)
         \o (IF Truthy(c, "type")
             THEN <<RatMul(_calculate_type_match(q, c), Rat(15, 100))>> ELSE <<>>)
         \o (IF Truthy(c, "reference_text")
             THEN <<RatMul(_calculate_semantic_similarity(q, c), Rat(1, 10))>> ELSE <<>>)
    IN  IF Truthy(c, "difficulty") /\ _calculate_difficulty_match(q, c).exc # "none"
        THEN [exc |-> _calculate_difficulty_match(q, c).exc, v |-> Rat(0, 1)]
        ELSE IF scores = <<>> THEN [exc |-> "none", v |-> Rat(1, 2)]
        ELSE [exc |-> "none", v |-> RatDivInt(RatSum(scores), Len(scores))]

\* [exc |-> "none", v |-> the scored copies], or the exception raised while
\* scoring the first question
score_questions(qs, c) ==
    IF qs # <<>> /\ _calculate_relevance_score(qs[1], c).exc # "none"
    THEN [exc |-> _calculate_relevance_score(qs[1], c).exc, v |-> <<>>]
    ELSE [exc |-> "none",
          v |-> [i \in DOMAIN qs |->
                    Put(qs[i], "relevance_score", _calculate_relevance_score(qs[i], c).v)]]

(***************************************************************************)
(* QuestionSelector (question_selector.py)                                 *)
(***************************************************************************)

w_general == <<"g","e","n","e","r","a","l">>

\* QuestionClassifier.classify_question with no trained model loaded: every
\* predict_* returns its fallback label with confidence 0.5.
classify_question(text) ==
    [topic |-> w_general, topic_confidence |-> Rat(1, 2),
     difficulty |-> w_medium, difficulty_confidence |-> Rat(1, 2),
     type |-> w_text, type_confidence |-> Rat(1, 2)]

\* not question.get(key)
Falsy(q, key) == key \notin DOMAIN q \/ q[key] = <<>>

Backfill(q, key, classification) ==
    IF Falsy(q, key)
    THEN Put(Put(q, key, classification[key]),
             key \o "_confidence", classification[key \o "_confidence"])
    ELSE q

_classify_questions(qs) ==
    [i \in DOMAIN qs |->
        IF Falsy(qs[i], "topic") \/ Falsy(qs[i], "difficulty")
        THEN LET classification == classify_question(qs[i]["question"])
             IN  Backfill(Backfill(Backfill(qs[i], "topic", classification),
                                   "difficulty", classification),
                          "type", classification)
        ELSE qs[i]]

\* {q['id']: q for q in questions}: for an id that occurs twice the later question wins
IndexOf(qs) ==
    [id \in {qs[i]["id"] : i \in DOMAIN qs} |->
        qs[CHOOSE i \in DOMAIN qs :
              /\ qs[i]["id"] = id
              /\ \A j \in DOMAIN qs : qs[j]["id"] = id => j <= i]]

default_count == 20

\* 1 - diversity_factor and diversity_factor = 0.3
diversity_factor == Rat(3, 10)

Relevance(q) == Get(q, "relevance_score", Rat(0, 1))

\* list.sort(key=relevance_score, reverse=True): a stable sort, so questions of
\* equal score keep their order
RECURSIVE InsertDesc(_, _)
InsertDesc(sorted, q) ==
    IF sorted = <<>> THEN <<q>>
    ELSE IF RatLess(Relevance(Head(sorted)), Relevance(q)) THEN <<q>> \o sorted
    ELSE <<Head(sorted)>> \o InsertDesc(Tail(sorted), q)

RECURSIVE SortByRelevance(_)
SortByRelevance(qs) ==
    IF qs = <<>> THEN <<>>
    ELSE InsertDesc(SortByRelevance(SubSeq(qs, 1, Len(qs) - 1)), qs[Len(qs)])

\* the topic bonus left out of the mean
_calculate_diversity_bonus_notopic(q, topic_counts, difficulty_counts, type_counts) ==
    LET difficulty_bonus == Rat(1, Get(difficulty_counts, Get(q, "difficulty", <<>>), 0) + 1)
        type_bonus       == Rat(1, Get(type_counts, Get(q, "type", <<>>), 0) + 1)
    IN  RatDivInt(RatAdd(difficulty_bonus, type_bonus), 2)

_calculate_diversity_bonus(q, topic_counts, difficulty_counts, type_counts) ==
    LET topic_bonus      == Rat(1, Get(topic_counts, Get(q, "topic", <<>>), 0) + 1)
        difficulty_bonus == Rat(1, Get(difficulty_counts, Get(q, "difficulty", <<>>), 0) + 1)
        type_bonus       == Rat(1, Get(type_counts, Get(q, "type", <<>>), 0) + 1)
    IN  RatDivInt(RatAdd(RatAdd(topic_bonus, difficulty_bonus), type_bonus), 3)

\* relevance and diversity bonus weigh the same
total_score_even(q, topic_counts, difficulty_counts, type_counts) ==
    RatAdd(RatMul(Relevance(q), Rat(1, 2)),
           RatMul(_calculate_diversity_bonus(q, topic_counts, difficulty_counts, type_counts),
                  Rat(1, 2)))

total_score(q, topic_counts, difficulty_counts, type_counts) ==
    RatAdd(RatMul(Relevance(q), RatAdd(Rat(1, 1), Rat(0 - diversity_factor[1], diversity_factor[2]))),
           RatMul(_calculate_diversity_bonus(q, topic_counts, difficulty_counts, type_counts),
                  diversity_factor))

\* total_score of every question of remaining, in order
RECURSIVE TotalScores(_, _, _, _)
TotalScores(remaining, topic_counts, difficulty_counts, type_counts) ==
    IF remaining = <<>> THEN <<>>
    ELSE <<total_score(Head(remaining), topic_counts, difficulty_counts, type_counts)>>
         \o TotalScores(Tail(remaining), topic_counts, difficulty_counts, type_counts)

\* the index the inner loop keeps: the first one whose total score is exceeded
\* by no other (best_score starts at -1 and is replaced on a strictly greater
\* score only)
FirstBest_last(scores) ==
    CHOOSE i \in DOMAIN scores :
        /\ \A j \in DOMAIN scores : ~RatLess(scores[i], scores[j])
        /\ \A j \in (i + 1)..Len(scores) : RatLess(scores[j], scores[i])

FirstBest(scores) ==
    CHOOSE i \in DOMAIN scores :
        /\ \A j \in DOMAIN scores : ~RatLess(scores[i], scores[j])
        /\ \A j \in 1..(i - 1) : RatLess(scores[j], scores[i])

BestIndex(remaining, topic_counts, difficulty_counts, type_counts) ==
    FirstBest(TotalScores(remaining, topic_counts, difficulty_counts, type_counts))

Bump(counts, key) == Put(counts, key, Get(counts, key, 0) + 1)

\* remaining.remove(q): the first element equal to q goes
RemoveFirst(xs, q) ==
    LET i == CHOOSE k \in DOMAIN xs : xs[k] = q /\ \A j \in 1..(k - 1) : xs[j] # q
    IN  SubSeq(xs, 1, i - 1) \o SubSeq(xs, i + 1, Len(xs))

RECURSIVE DiverseLoop(_, _, _, _, _, _)
DiverseLoop(selected, remaining, target_count, topic_counts, difficulty_counts, type_counts) ==
    IF Len(selected) < target_count /\ remaining # <<>>
    THEN LET best == remaining[BestIndex(remaining, topic_counts, difficulty_counts, type_counts)]
         IN  DiverseLoop(Append(selected, best), RemoveFirst(remaining, best), target_count,
                         Bump(topic_counts, Get(best, "topic", <<>>)),
                         Bump(difficulty_counts, Get(best, "difficulty", <<>>)),
                         Bump(type_counts, Get(best, "type", <<>>)))
    ELSE selected

\* the first target_count candidates, whatever their topics
_diverse_selection_top(scored_questions, target_count) ==
    SubSeq(scored_questions, 1, target_count)

_diverse_selection(scored_questions, target_count) ==
    DiverseLoop(<<>>, scored_questions, target_count, Empty, Empty, Empty)

\* the candidates are cut to the target count without being sorted
_select_final_set_unsorted(scored_questions, c) ==
    LET target_count == Get(c, "count", default_count)
    IN  IF Len(scored_questions) <= target_count THEN scored_questions
        ELSE IF Get(c, "diversity", TRUE)
             THEN _diverse_selection(SortByRelevance(scored_questions), target_count)
             ELSE SubSeq(scored_questions, 1, target_count)

_select_final_set(scored_questions, c) ==
    LET target_count == Get(c, "count", default_count)
    IN  IF Len(scored_questions) <= target_count THEN scored_questions
        ELSE IF Get(c, "diversity", TRUE)
             THEN _diverse_selection(SortByRelevance(scored_questions), target_count)
             ELSE SubSeq(SortByRelevance(scored_questions), 1, target_count)

\* select_questions(**raw): [exc, v, parsed, filtered]: exc is "none" and v the
\* returned list, or exc names the exception that escaped.  The three operators
\* below are its steps, each taking what the step before it computed.

\* scored_questions = score_questions(filtered_questions, parsed_criteria) and
\* selected_questions = _select_final_set(scored_questions, parsed_criteria)
SelectScored(c, filtered, scored) ==
    IF scored.exc # "none"
    THEN [exc |-> scored.exc, v |-> <<>>, parsed |-> c, filtered |-> filtered]
    ELSE [exc |-> "none", v |-> _select_final_set(scored.v, c),
          parsed |-> c, filtered |-> filtered]

\* filtered_questions = apply_filters(questions.copy(), parsed_criteria), and
\* the early return of [] when nothing survives
SelectFiltered(c, filtered) ==
    IF filtered = <<>>
    THEN [exc |-> "none", v |-> <<>>, parsed |-> c, filtered |-> filtered]
    ELSE SelectScored(c, filtered, score_questions(filtered, c))

\* parsed_criteria = parse_criteria(criteria)
SelectParsed(qs, p) ==
    IF p.exc # "none"
    THEN [exc |-> p.exc, v |-> <<>>, parsed |-> Empty, filtered |-> <<>>]
    ELSE SelectFiltered(p.v, apply_filters(qs, p.v))

select_questions(qs, raw) == SelectParsed(qs, parse_criteria(raw))

(***************************************************************************)
(* Inputs of the parser specification                                      *)
(***************************************************************************)

StrV(s)  == [t |-> "str",  v |-> s]
IntV(n)  == [t |-> "int",  v |-> n]
BoolV(b) == [t |-> "bool", v |-> b]
ListV(x) == [t |-> "list", v |-> x]

\* Integers offered as count and length values run from -1 to MaxInt, plus the
\* values around the cap and the two lengths of the swap example.
MaxInt == 1

s_25      == <<"2","5">>
s_neg5    == <<"-","5">>
s_pad7    == <<" ","7"," ">>
s_1001    == <<"1","0","0","1">>
s_2dot5   == <<"2",".","5">>
s_invalid == <<"i","n","v","a","l","i","d">>
s_50      == <<"5","0">>

CountInputs ==
    {IntV(n) : n \in (-1..MaxInt) \cup {CountCap - 1, CountCap, CountCap + 1}}
    \cup {StrV(s_25), StrV(s_neg5), StrV(s_pad7), StrV(s_1001), StrV(s_2dot5),
          StrV(s_invalid), StrV(<<>>)}
    \cup {BoolV(TRUE), ListV(<<IntV(3)>>)}

LengthInputs ==
    {IntV(n) : n \in (-1..MaxInt) \cup {10, 50}}
    \cup {StrV(s_50), StrV(s_invalid), ListV(<<IntV(3)>>)}

s_easy_medium   == w_easy \o <<",">> \o w_medium
s_Hard_bogus    == <<" ","H","a","r","d"," ",",","b","o","g","u","s",",">> \o w_easy
s_EXPERT        == <<"E","X","P","E","R","T">>

DifficultyInputs ==
    {StrV(w_easy), StrV(s_easy_medium), StrV(s_Hard_bogus), StrV(s_invalid), StrV(<<>>),
     ListV(<<StrV(s_EXPERT), StrV(s_invalid), StrV(w_easy), StrV(w_easy)>>), ListV(<<>>),
     IntV(3)}

s_math        == <<"m","a","t","h">>
s_mathematics == <<"m","a","t","h","e","m","a","t","i","c","s">>
s_physics     == <<"p","h","y","s","i","c","s">>
s_geography   == <<"g","e","o","g","r","a","p","h","y">>
s_quantum     == <<"q","u","a","n","t","u","m">>

\* Values of the remaining keys, in a few mixes of types ("source" is a key the
\* parser does not know and passes through).
OtherInputs ==
    { Empty,
      [topic |-> StrV(s_math \o <<","," ">> \o s_physics), diversity |-> StrV(<<"Y","e","s">>),
       type |-> StrV(<<"E","s","s","a","y",",","x">>), keywords |-> IntV(5),
       text_contains |-> IntV(12)],
      [topic |-> ListV(<<StrV(s_math), IntV(7), StrV(<<" ">>)>>), diversity |-> BoolV(FALSE),
       type |-> ListV(<<BoolV(TRUE)>>), keywords |-> StrV(s_math \o <<";">> \o s_quantum),
       exclude_keywords |-> ListV(<<StrV(s_math)>>), reference_text |-> StrV(s_quantum)],
      [topic |-> BoolV(TRUE), type |-> IntV(0), keywords |-> ListV(<<>>),
       exclude_keywords |-> BoolV(FALSE), text_contains |-> StrV(<<"[">>),
       diversity |-> ListV(<<>>), source |-> ListV(<<IntV(1)>>)] }

\* dict union of two mappings with disjoint keys
Merge(d, e) == [k \in (DOMAIN d) \cup (DOMAIN e) |-> IF k \in DOMAIN d THEN d[k] ELSE e[k]]

\* { {} } plus every one-key mapping key -> value in vals
Optional(key, vals) == {Empty} \cup {[k \in {key} |-> x] : x \in vals}

RawCriteria ==
    { Merge(Merge(Merge(c, lo), Merge(hi, d)), o) :
        c \in Optional("count", CountInputs),
        lo \in Optional("min_length", LengthInputs),
        hi \in Optional("max_length", LengthInputs),
        d \in Optional("difficulty", DifficultyInputs),
        o \in OtherInputs }

(***************************************************************************)
(* SpecParse: parse_criteria applied to every raw criteria mapping          *)
(***************************************************************************)

IdleBank ==
    /\ loaded_bank = <<>>
    /\ statistics = Empty

\* The marks_distribution argument: None, or a dict given as the list of its
\* items <<key, count>>.
NoneV == [t |-> "none", v |-> <<>>]
DictV(items) == [t |-> "dict", v |-> items]

IdleExtra ==
    /\ available_units = <<>>
    /\ custom_filters = <<>>
    /\ filter_calls = <<>>
    /\ diverse_target = 0

IdleMarks ==
    /\ unit_bank = <<>>
    /\ selected_units = <<>>
    /\ total_marks = 0
    /\ supplied = NoneV
    /\ marks_distribution = <<>>
    /\ draws = <<>>
    /\ result = Empty

Idle ==
    /\ questions = <<>>
    /\ question_index = Empty
    /\ parsed_criteria = Empty
    /\ filtered_questions = <<>>
    /\ refiltered = <<>>
    /\ narrowed_criteria = Empty
    /\ narrowed = <<>>
    /\ selected_questions = <<>>
    /\ outcome = "none"
    /\ IdleBank
    /\ IdleMarks
    /\ IdleExtra

InitParse ==
    /\ Idle
    /\ criteria \in RawCriteria
    /\ pc = "start"

ParseCriteria ==
    /\ pc = "start"
    /\ LET r == parse_criteria(criteria)
       IN  /\ parsed_criteria' = r.v
           /\ outcome' = IF r.exc = "none" THEN "returned" ELSE r.exc
    /\ pc' = "parsed"
    /\ UNCHANGED <<questions, question_index, criteria, filtered_questions, refiltered,
                   narrowed_criteria, narrowed, selected_questions>>
    /\ UNCHANGED <<bank_vars, marks_vars>>
    /\ UNCHANGED extra_vars

NextParse == ParseCriteria

SpecParse == InitParse /\ [][NextParse]_vars

(***************************************************************************)
(* Claims about the parser, checked under SpecParse                        *)
(***************************************************************************)

IsStr(x, s) == x.t = "str" /\ x.v = s
IsInt(x, n) == x.t = "int" /\ x.v = n

\* C4: parse_criteria never raises: for every mapping whose values are strings,
\* lists, integers or booleans in any mix (empty, unparsable and out-of-range
\* values included) it returns a criteria record, with the keys of the input.
C4_ParseNeverRaises ==
    pc = "parsed" =>
        /\ outcome = "returned"
        /\ DOMAIN parsed_criteria = DOMAIN criteria

\* C4's case: a list as count, an unparsable string as min_length and a list as
\* max_length were parsed.
C4_Witness ==
    /\ pc = "parsed"
    /\ outcome = "returned"
    /\ {"count", "min_length", "max_length"} \subseteq DOMAIN criteria
    /\ criteria["count"].t = "list"
    /\ IsStr(criteria["min_length"], s_invalid)
    /\ criteria["max_length"].t = "list"

\* C5: the normalised count is an integer in 1..1000: a parsable positive value v
\* becomes min(v, 1000), a non-positive or unparsable value becomes 20.
C5_CountNormalised ==
    (pc = "parsed" /\ "count" \in DOMAIN criteria) =>
        /\ outcome = "returned"
        /\ parsed_criteria["count"] \in 1..1000
        /\ LET r == PyInt(criteria["count"])
           IN  parsed_criteria["count"] =
                  IF r.exc = "none" /\ r.v > 0
                  THEN (IF r.v <= 1000 THEN r.v ELSE 1000)
                  ELSE 20

\* C5's case: a count above the cap, given as a string, was parsed.
C5_Witness ==
    /\ pc = "parsed"
    /\ "count" \in DOMAIN criteria
    /\ IsStr(criteria["count"], s_1001)
    /\ parsed_criteria["count"] = 1000

DifficultyEnum == {w_easy, w_medium, w_hard, w_expert}

\* the j-th smallest member of a set of indices
NthIndex(idx, j) == CHOOSE i \in idx : Cardinality({k \in idx : k <= i}) = j

\* C6: the normalised difficulty list is non-empty and holds only
\* easy/medium/hard/expert: the valid terms of the input (trimmed, lower-cased)
\* in their input order, invalid terms dropped, and exactly [medium] if none is valid.
C6_DifficultyNormalised ==
    (pc = "parsed" /\ "difficulty" \in DOMAIN criteria) =>
        /\ outcome = "returned"
        /\ LET raw   == RawTerms(criteria["difficulty"])
               terms == [i \in DOMAIN raw |-> Lower(Strip(raw[i]))]
               idx   == {i \in DOMAIN terms : terms[i] \in DifficultyEnum}
               res   == parsed_criteria["difficulty"]
           IN  /\ res # <<>>
               /\ \A j \in DOMAIN res : res[j] \in DifficultyEnum
               /\ idx = {} => res = <<w_medium>>
               /\ idx # {} =>
                    /\ Len(res) = Cardinality(idx)
                    /\ \A j \in DOMAIN res : res[j] = terms[NthIndex(idx, j)]

\* C6's case: " Hard ,bogus,easy" was parsed: the invalid term is dropped and
\* the two valid ones are kept in order.
C6_Witness ==
    /\ pc = "parsed"
    /\ "difficulty" \in DOMAIN criteria
    /\ IsStr(criteria["difficulty"], s_Hard_bogus)
    /\ parsed_criteria["difficulty"] = <<w_hard, w_easy>>

\* C7: whenever both min_length and max_length are in the input, the returned
\* criteria have min_length <= max_length, the two parsed values being swapped
\* when they arrive in the wrong order.
C7_LengthBoundsOrdered ==
    (pc = "parsed" /\ {"min_length", "max_length"} \subseteq DOMAIN criteria) =>
        /\ outcome = "returned"
        /\ parsed_criteria["min_length"] <= parsed_criteria["max_length"]
        /\ LET lo == _parse_length(criteria["min_length"]).v
               hi == _parse_length(criteria["max_length"]).v
           IN  IF lo > hi
               THEN parsed_criteria["min_length"] = hi /\ parsed_criteria["max_length"] = lo
               ELSE parsed_criteria["min_length"] = lo /\ parsed_criteria["max_length"] = hi

\* C7's case: min 50, max 10 became min 10, max 50.
C7_Witness ==
    /\ pc = "parsed"
    /\ {"min_length", "max_length"} \subseteq DOMAIN criteria
    /\ IsInt(criteria["min_length"], 50)
    /\ IsInt(criteria["max_length"], 10)
    /\ parsed_criteria["min_length"] = 10
    /\ parsed_criteria["max_length"] = 50

(***************************************************************************)
(* The question bank of the model                                          *)
(***************************************************************************)

s_Math      == <<"M","a","t","h">>
s_sum       == <<"s","u","m">>
s_capitals  == <<"c","a","p","i","t","a","l","s">>
s_Physics   == <<"P","h","y","s","i","c","s">>
s_geo       == <<"g","e","o">>
t_add       == <<"A","d","d"," ","2","+","2">>
t_paris     == <<"P","a","r","i","s">>
t_quantum   == <<"Q","u","a","n","t","u","m","?">>
t_sets      == <<"m","a","t","h","[","1","]">>

\* What a question says about itself, its id apart (after TestQuestionSelector's
\* sample questions; the last one has no keywords and a topic that is a
\* differently-cased substring of the first one's).
Profiles ==
    << [question |-> t_add, topic |-> s_mathematics, difficulty |-> w_easy,
        type |-> w_numeric, keywords |-> <<s_math, s_sum>>],
       [question |-> t_paris, topic |-> s_geography, difficulty |-> w_easy,
        type |-> w_text, keywords |-> <<s_capitals>>],
       [question |-> t_quantum, topic |-> s_physics, difficulty |-> w_hard,
        type |-> w_essay, keywords |-> <<s_Physics>>],
       [question |-> t_sets, topic |-> s_Math, difficulty |-> w_easy,
        type |-> w_numeric] >>

\* A bank holds at most MaxPool questions, with the ids 1, 2, ... in list order.
MaxPool == 2

WithId(profile, id) == Put(profile, "id", id)

\* every list of at most n questions made from profiles
BanksOf(profiles, n) ==
    UNION { { [i \in 1..k |-> WithId(profiles[choice[i]], i)] :
                choice \in [1..k -> DOMAIN profiles] } : k \in 0..n }

Banks(n) == BanksOf(Profiles, n)

(***************************************************************************)
(* SpecFilter: apply_filters on every bank and criteria, applied again to  *)
(* its own result.  SpecNarrow: apply_filters on every bank and criteria,  *)
(* and on the same bank with a more restrictive criteria.                  *)
(***************************************************************************)

\* The longest text length a criteria asks about.
MaxLength == 8

\* The values a criteria of the model may give to each key.
CriteriaOptions(k) ==
    CASE k = "topic"            -> {<<s_math>>, <<s_Physics, s_geo>>}
      [] k = "difficulty"       -> {<<w_easy>>}
      [] k = "type"             -> {<<w_essay, w_numeric>>}
      [] k = "keywords"         -> {<<s_quantum, s_sum>>}
      [] k = "text_contains"    -> {s_math, <<"[">>}
      [] k = "exclude_keywords" -> {<<s_capitals>>}
      [] k = "min_length"       -> {6}
      [] k = "max_length"       -> {7}

FilterKeys == {"topic", "difficulty", "type", "keywords", "text_contains",
               "exclude_keywords", "min_length", "max_length"}

FilterCriteria ==
    { Merge(Merge(Merge(a, b), Merge(c, d)), Merge(Merge(e, f), Merge(g, h))) :
        a \in Optional("topic", CriteriaOptions("topic")),
        b \in Optional("difficulty", CriteriaOptions("difficulty")),
        c \in Optional("type", CriteriaOptions("type")),
        d \in Optional("keywords", CriteriaOptions("keywords")),
        e \in Optional("text_contains", CriteriaOptions("text_contains")),
        f \in Optional("exclude_keywords", CriteriaOptions("exclude_keywords")),
        g \in Optional("min_length", CriteriaOptions("min_length")),
        h \in Optional("max_length", CriteriaOptions("max_length")) }

InitFilter ==
    /\ questions \in Banks(MaxPool)
    /\ question_index = Empty
    /\ criteria = Empty
    /\ parsed_criteria \in FilterCriteria
    /\ filtered_questions = <<>>
    /\ refiltered = <<>>
    /\ narrowed_criteria = Empty
    /\ narrowed = <<>>
    /\ selected_questions = <<>>
    /\ outcome = "none"
    /\ pc = "start"
    /\ IdleBank
    /\ IdleMarks
    /\ IdleExtra

ApplyFilters ==
    /\ pc = "start"
    /\ filtered_questions' = apply_filters(questions, parsed_criteria)
    /\ pc' = "filtered"
    /\ UNCHANGED <<questions, question_index, criteria, parsed_criteria, refiltered,
                   narrowed_criteria, narrowed, selected_questions, outcome>>
    /\ UNCHANGED <<bank_vars, marks_vars>>
    /\ UNCHANGED extra_vars

ApplyFiltersAgain ==
    /\ pc = "filtered"
    /\ refiltered' = apply_filters(filtered_questions, parsed_criteria)
    /\ pc' = "refiltered"
    /\ UNCHANGED <<questions, question_index, criteria, parsed_criteria, filtered_questions,
                   narrowed_criteria, narrowed, selected_questions, outcome>>
    /\ UNCHANGED <<bank_vars, marks_vars>>
    /\ UNCHANGED extra_vars

\* every list made of some of the elements of xs, in their order
SubLists(xs) ==
    { [i \in 1..Cardinality(keep) |-> xs[NthIndex(keep, i)]] : keep \in SUBSET (DOMAIN xs) }

ApplyNarrowed(c) ==
    /\ narrowed_criteria' = c
    /\ narrowed' = apply_filters(questions, c)
    /\ pc' = "narrowed"
    /\ UNCHANGED <<questions, question_index, criteria, parsed_criteria, filtered_questions,
                   refiltered, selected_questions, outcome>>
    /\ UNCHANGED <<bank_vars, marks_vars>>
    /\ UNCHANGED extra_vars

\* a criterion is added
NarrowByAdding ==
    /\ pc = "filtered"
    /\ \E k \in FilterKeys \ DOMAIN parsed_criteria :
        \E x \in CriteriaOptions(k) : ApplyNarrowed(Put(parsed_criteria, k, x))

\* a topic, difficulty, type or include-keyword set is replaced by a smaller,
\* non-empty subset of itself (the criterion stays present)
NarrowBySubset ==
    /\ pc = "filtered"
    /\ \E k \in (DOMAIN parsed_criteria) \cap {"topic", "difficulty", "type", "keywords"} :
        \E sub \in SubLists(parsed_criteria[k]) \ {parsed_criteria[k], <<>>} :
            ApplyNarrowed(Put(parsed_criteria, k, sub))

\* min_length is raised
NarrowByMinLength ==
    /\ pc = "filtered"
    /\ "min_length" \in DOMAIN parsed_criteria
    /\ \E n \in (parsed_criteria["min_length"] + 1)..MaxLength :
            ApplyNarrowed(Put(parsed_criteria, "min_length", n))

\* max_length is lowered
NarrowByMaxLength ==
    /\ pc = "filtered"
    /\ "max_length" \in DOMAIN parsed_criteria
    /\ \E n \in 0..(parsed_criteria["max_length"] - 1) :
            ApplyNarrowed(Put(parsed_criteria, "max_length", n))

NextFilter ==
    \/ ApplyFilters
    \/ ApplyFiltersAgain

SpecFilter == InitFilter /\ [][NextFilter]_vars

NextNarrow ==
    \/ ApplyFilters
    \/ NarrowByAdding
    \/ NarrowBySubset
    \/ NarrowByMinLength
    \/ NarrowByMaxLength

SpecNarrow == InitFilter /\ [][NextNarrow]_vars

(***************************************************************************)
(* Claims about apply_filters, checked under SpecFilter and SpecNarrow     *)
(***************************************************************************)

\* C8: apply_filters is idempotent: with no custom filter registered,
\* apply_filters(apply_filters(Q, C), C) equals apply_filters(Q, C) for every
\* question list Q and criteria C.
C8_FiltersIdempotent ==
    pc = "refiltered" => refiltered = filtered_questions

\* C8's case: at least three criteria were applied twice to a bank of which they
\* keep some questions and drop others.
C8_Witness ==
    /\ pc = "refiltered"
    /\ Cardinality(DOMAIN parsed_criteria) >= 3
    /\ filtered_questions # <<>>
    /\ Len(filtered_questions) < Len(questions)
    /\ refiltered = filtered_questions

\* C9: apply_filters is monotone in the criteria: a more restrictive criteria (a
\* criterion added, a topic, difficulty, type or include-keyword set replaced by
\* a subset of itself, min_length raised or max_length lowered) never returns
\* more questions for the same bank.
C9_FiltersMonotone ==
    pc = "narrowed" => Len(narrowed) <= Len(filtered_questions)

\* C22: with no custom filter registered, apply_filters returns a sub-sequence
\* of its input (every returned question is an input question, none more often
\* than in the input, in the input's relative order) and leaves the input list
\* and its questions unchanged.
C22_FilteredSubSequence ==
    [][ApplyFilters => /\ filtered_questions' \in SubLists(questions)
                       /\ questions' = questions]_vars

\* C22's case: of a bank of two questions the first was dropped and the second
\* kept
C22_Witness ==
    /\ pc = "filtered"
    /\ Len(questions) = 2
    /\ filtered_questions = <<questions[2]>>

(***************************************************************************)
(* SpecCustom: custom filters are registered with add_custom_filter, then  *)
(* apply_filters is called.  The order of the keys of the criteria dict    *)
(* matters here, so the criteria of this specification are the list of the *)
(* dict's items <<key, value>> in iteration order.  Two filter functions   *)
(* are registered, each under its own name: 'limit' keeps the first value  *)
(* questions (qs[:value]), 'skip' drops them (qs[value:]).                 *)
(***************************************************************************)

CustomNames == {"limit", "skip"}

\* custom_filters[name](questions, value)
CustomFunction(name, qs, value) ==
    IF name = "limit" THEN SubSeq(qs, 1, Min(value, Len(qs)))
    ELSE SubSeq(qs, value + 1, Len(qs))

\* add_custom_filter(name, filter_func): self.custom_filters[name] = filter_func;
\* a dict keeps a key that is assigned again at its place
add_custom_filter(registered, name) ==
    IF name \in Range(registered) THEN registered ELSE Append(registered, name)

\* the dict whose items are listed
AsDict(items) ==
    [key \in {items[i][1] : i \in DOMAIN items} |->
        items[CHOOSE i \in DOMAIN items : items[i][1] = key][2]]

FixedFilters == <<"topic", "difficulty", "type", "keywords", "text_contains",
                  "exclude_keywords", "min_length", "max_length">>

\* the fixed filters that apply_filters runs for the criteria, in order
FixedCalls(c) ==
    SelectSeq(FixedFilters,
              LAMBDA key : IF key \in {"min_length", "max_length"}
                           THEN TruthyInt(c, key) ELSE Truthy(c, key))

\* for filter_name, filter_value in criteria.items(): the custom filters run,
\* in order
CustomCalls(items, registered) ==
    SelectSeq([i \in DOMAIN items |-> items[i][1]], LAMBDA key : key \in Range(registered))

\* the loop over criteria.items(), from the result of the fixed filters
RECURSIVE RunCustom(_, _, _)
RunCustom(qs, items, registered) ==
    IF items = <<>> THEN qs
    ELSE RunCustom(IF Head(items)[1] \in Range(registered)
                   THEN CustomFunction(Head(items)[1], qs, Head(items)[2])
                   ELSE qs,
                   Tail(items), registered)

\* apply_filters(questions, criteria) with custom filters registered
apply_filters_custom(qs, items, registered) ==
    RunCustom(apply_filters(qs, AsDict(items)), items, registered)

\* The criteria: a topic, or none, and any of the custom keys, in any order;
\* no key twice.
CustomCriteria ==
    { items \in
        { fixed \o custom :
            fixed \in {<<>>, << <<"topic", <<s_math>>>> >>},
            custom \in {<<>>, << <<"limit", 1>> >>, << <<"skip", 1>> >>,
                        << <<"limit", 1>>, <<"skip", 1>> >>,
                        << <<"skip", 1>>, <<"limit", 1>> >>,
                        << <<"skip", 1>>, <<"topic", <<s_Physics, s_geo>>>>,
                           <<"limit", 1>> >>} } :
        Cardinality({items[i][1] : i \in DOMAIN items}) = Len(items) }

InitCustom ==
    /\ Idle
    /\ criteria = <<>>
    /\ pc = "init"

\* FilterManager.add_custom_filter(name, filter_func)
AddCustomFilter ==
    /\ pc \in {"init", "registered"}
    /\ \E name \in CustomNames : custom_filters' = add_custom_filter(custom_filters, name)
    /\ pc' = "registered"
    /\ UNCHANGED <<questions, question_index, criteria, parsed_criteria,
                   filtered_questions, refiltered, narrowed_criteria, narrowed,
                   selected_questions, outcome, bank_vars, marks_vars,
                   available_units, filter_calls, diverse_target>>

\* FilterManager.apply_filters(bank, criteria)
ApplyCustomFilters ==
    /\ pc \in {"init", "registered"}
    /\ \E bank \in Banks(MaxPool), items \in CustomCriteria :
        /\ questions' = bank
        /\ criteria' = items
        /\ filtered_questions' = apply_filters_custom(bank, items, custom_filters)
        /\ filter_calls' = FixedCalls(AsDict(items)) \o CustomCalls(items, custom_filters)
    /\ pc' = "filtered"
    /\ UNCHANGED <<question_index, parsed_criteria, refiltered, narrowed_criteria,
                   narrowed, selected_questions, outcome, bank_vars, marks_vars,
                   available_units, custom_filters, diverse_target>>

NextCustom ==
    \/ AddCustomFilter
    \/ ApplyCustomFilters

SpecCustom == InitCustom /\ [][NextCustom]_vars

\* the place of name in the order of registration
Registered(name) == CHOOSE i \in DOMAIN custom_filters : custom_filters[i] = name

\* C23: the registered custom filters named in the criteria run after all the
\* fixed filters, and in the order in which they were registered, whatever the
\* order of the keys in the criteria.
C23_CustomInRegistrationOrder ==
    pc = "filtered" =>
        \A i, j \in DOMAIN filter_calls :
            (i < j /\ filter_calls[i] \in Range(custom_filters)) =>
                /\ filter_calls[j] \in Range(custom_filters)
                /\ Registered(filter_calls[i]) < Registered(filter_calls[j])

(***************************************************************************)
(* Spec: the selector.  Banks are loaded one after another and a selection *)
(* is made from the bank loaded last.  select_questions changes nothing in *)
(* the selector (it filters a copy and scores copies), so one selection    *)
(* after any sequence of loads stands for every later call too.            *)
(***************************************************************************)

MaxBank == 3
MaxCount == 2

s_Mathematics_geo == <<"M","a","t","h","e","m","a","t","i","c","s",","," ","g","e","o">>
s_math_sum        == s_math \o <<";">> \o s_sum
s_numeric_essay   == w_numeric \o <<",">> \o w_essay

\* The selector's banks are made of the two mathematics questions and the
\* physics one.
SelectorProfiles == <<Profiles[1], Profiles[3], Profiles[4]>>

SelectCriteria ==
    { Merge(Merge(Merge(a, b), Merge(c, d)), Merge(e, f)) :
        a \in Optional("topic", {StrV(s_math), StrV(s_Mathematics_geo), StrV(<<" ">>)}),
        b \in Optional("difficulty", {StrV(w_easy)}),
        c \in Optional("type", {StrV(s_numeric_essay)}),
        d \in Optional("keywords", {StrV(s_math_sum)}),
        e \in Optional("count", {IntV(n) : n \in 1..MaxCount}),
        f \in Optional("diversity", {BoolV(FALSE)}) }

Init ==
    /\ Idle
    /\ criteria = Empty
    /\ pc = "init"

LoadQuestions ==
    /\ pc \in {"init", "loaded"}
    /\ \E bank \in BanksOf(SelectorProfiles, MaxBank) :
        /\ loaded_bank' = bank
        /\ questions' = _classify_questions(bank)
        /\ question_index' = IndexOf(_classify_questions(bank))
    /\ pc' = "loaded"
    /\ UNCHANGED <<criteria, parsed_criteria, filtered_questions, refiltered,
                   narrowed_criteria, narrowed, selected_questions, outcome>>
    /\ UNCHANGED <<statistics, marks_vars>>
    /\ UNCHANGED extra_vars

SelectQuestions ==
    /\ pc \in {"init", "loaded"}
    /\ \E raw \in SelectCriteria :
        LET r == select_questions(questions, raw)
        IN  /\ criteria' = raw
            /\ parsed_criteria' = r.parsed
            /\ filtered_questions' = r.filtered
            /\ selected_questions' = r.v
            /\ outcome' = IF r.exc = "none" THEN "returned" ELSE r.exc
    /\ pc' = "selected"
    /\ UNCHANGED <<questions, question_index, refiltered, narrowed_criteria, narrowed>>
    /\ UNCHANGED <<bank_vars, marks_vars>>
    /\ UNCHANGED extra_vars

Next ==
    \/ LoadQuestions
    \/ SelectQuestions

Spec == Init /\ [][Next]_vars

(***************************************************************************)
(* SpecDiverse: _diverse_selection on every list of scored candidates and  *)
(* every target count, the counts beyond the number of candidates included. *)
(***************************************************************************)

\* The criteria under which the candidates are scored.
ScoringCriteria ==
    { Merge(a, b) :
        a \in Optional("topic", {StrV(s_math), StrV(s_Mathematics_geo)}),
        b \in Optional("keywords", {StrV(s_math_sum)}) }

InitDiverse ==
    /\ Idle
    /\ criteria = Empty
    /\ pc = "init"

\* score_questions on a bank: the candidates of a later _diverse_selection
ScoreCandidates ==
    /\ pc = "init"
    /\ \E bank \in BanksOf(SelectorProfiles, MaxBank), raw \in ScoringCriteria :
        /\ criteria' = raw
        /\ parsed_criteria' = parse_criteria(raw).v
        /\ filtered_questions' =
                score_questions(_classify_questions(bank), parse_criteria(raw).v).v
    /\ pc' = "scored"
    /\ UNCHANGED <<questions, question_index, refiltered, narrowed_criteria, narrowed,
                   selected_questions, outcome, bank_vars, marks_vars, extra_vars>>

\* _diverse_selection(scored_questions, target_count)
DiverseSelection ==
    /\ pc = "scored"
    /\ \E n \in 0..(MaxBank + 1) :
        /\ diverse_target' = n
        /\ selected_questions' = _diverse_selection(filtered_questions, n)
    /\ pc' = "diverse"
    /\ UNCHANGED <<questions, question_index, criteria, parsed_criteria,
                   filtered_questions, refiltered, narrowed_criteria, narrowed,
                   outcome, bank_vars, marks_vars,
                   available_units, custom_filters, filter_calls>>

NextDiverse ==
    \/ ScoreCandidates
    \/ DiverseSelection

SpecDiverse == InitDiverse /\ [][NextDiverse]_vars

\* the candidates not chosen before step k, as places in the candidate list
RemainingAt(k) ==
    { i \in DOMAIN filtered_questions :
        \A j \in 1..(k - 1) : selected_questions[j]["id"] # filtered_questions[i]["id"] }

\* 1/(count + 1), the count being the number of questions chosen before step k
\* that have the same value under key as q
Share(q, key, k) ==
    Rat(1, 1 + Cardinality({ j \in 1..(k - 1) :
                                Get(selected_questions[j], key, <<>>) = Get(q, key, <<>>) }))

\* 0.7 * relevance + 0.3 * mean of the three shares
CombinedScore(q, k) ==
    RatAdd(RatMul(Rat(7, 10), Relevance(q)),
           RatMul(Rat(3, 10),
                  RatDivInt(RatAdd(RatAdd(Share(q, "topic", k), Share(q, "difficulty", k)),
                                   Share(q, "type", k)), 3)))

\* C21: at every step of the greedy loop the chosen candidate has a combined
\* score (0.7 * relevance + 0.3 * mean of 1/(count + 1) over its topic,
\* difficulty and type, counting the questions chosen so far) no lower than
\* any other remaining candidate, and is the first of the remaining candidates
\* that reaches the maximum; the loop stops exactly when target_count
\* questions are chosen or no candidate remains.
C21_GreedyStep ==
    pc = "diverse" =>
        /\ Len(selected_questions) = Min(diverse_target, Len(filtered_questions))
        /\ \A k \in DOMAIN selected_questions :
            \E i \in RemainingAt(k) :
                /\ filtered_questions[i] = selected_questions[k]
                /\ \A r \in RemainingAt(k) :
                    /\ ~RatLess(CombinedScore(filtered_questions[i], k),
                                CombinedScore(filtered_questions[r], k))
                    /\ r < i => RatLess(CombinedScore(filtered_questions[r], k),
                                        CombinedScore(filtered_questions[i], k))

\* C21's case: the loop ran out of candidates before the target count, and at
\* some step the chosen candidate was less relevant than one left behind.
C21_Witness ==
    /\ pc = "diverse"
    /\ diverse_target > Len(filtered_questions)
    /\ \E k \in DOMAIN selected_questions : \E r \in RemainingAt(k) :
            RatLess(Relevance(selected_questions[k]), Relevance(filtered_questions[r]))

(***************************************************************************)
(* SpecLenient: select_questions with length bounds that are valid, absent, *)
(* unparsable or negative, with keywords that are included and excluded at *)
(* once and with a reference text; then the same call again, the invalid   *)
(* bounds left out.                                                        *)
(***************************************************************************)

s_math_or_sum == s_math \o <<";">> \o s_sum

LenientCriteria ==
    { Merge(Merge(Merge(lo, hi), t), Merge(Merge(k, x), r)) :
        t  \in Optional("topic", {StrV(s_math)}),
        lo \in Optional("min_length", {IntV(6), IntV(8), StrV(s_invalid), IntV(0 - 1)}),
        hi \in Optional("max_length", {IntV(5), IntV(7), StrV(s_invalid), IntV(0 - 1)}),
        k  \in Optional("keywords", {StrV(s_sum), StrV(s_math_or_sum)}),
        x  \in Optional("exclude_keywords", {StrV(s_sum)}),
        r  \in Optional("reference_text", {StrV(t_paris)}) }

\* the length bounds of raw that int() cannot parse or that are negative
InvalidBounds(raw) ==
    { key \in (DOMAIN raw) \cap {"min_length", "max_length"} :
        PyInt(raw[key]).exc # "none" \/ PyInt(raw[key]).v < 0 }

\* raw without the keys
Without(raw, keys) == [key \in (DOMAIN raw) \ keys |-> raw[key]]

InitLenient ==
    /\ Idle
    /\ criteria = Empty
    /\ pc = "init"

\* load_questions(bank)
LoadPool ==
    /\ pc = "init"
    /\ \E bank \in Banks(MaxPool) :
        /\ loaded_bank' = bank
        /\ questions' = _classify_questions(bank)
        /\ question_index' = IndexOf(_classify_questions(bank))
    /\ pc' = "loaded"
    /\ UNCHANGED <<criteria, parsed_criteria, filtered_questions, refiltered,
                   narrowed_criteria, narrowed, selected_questions, outcome,
                   statistics, marks_vars, extra_vars>>

\* select_questions(**raw)
SelectLenient ==
    /\ pc = "loaded"
    /\ \E raw \in LenientCriteria :
        LET r == select_questions(questions, raw)
        IN  /\ criteria' = raw
            /\ parsed_criteria' = r.parsed
            /\ filtered_questions' = r.filtered
            /\ selected_questions' = r.v
            /\ outcome' = IF r.exc = "none" THEN "returned" ELSE r.exc
    /\ pc' = "selected"
    /\ UNCHANGED <<questions, question_index, refiltered, narrowed_criteria, narrowed,
                   bank_vars, marks_vars, extra_vars>>

\* select_questions once more, the invalid length bounds of the criteria
\* omitted: narrowed is the filtered result of that call
SelectOmitted ==
    /\ pc = "selected"
    /\ InvalidBounds(criteria) # {}
    /\ narrowed_criteria' = Without(criteria, InvalidBounds(criteria))
    /\ narrowed' = select_questions(questions, Without(criteria, InvalidBounds(criteria))).filtered
    /\ pc' = "omitted"
    /\ UNCHANGED <<questions, question_index, criteria, parsed_criteria,
                   filtered_questions, refiltered, selected_questions, outcome,
                   bank_vars, marks_vars, extra_vars>>

NextLenient ==
    \/ LoadPool
    \/ SelectLenient
    \/ SelectOmitted

SpecLenient == InitLenient /\ [][NextLenient]_vars

\* C26: an unparsable or negative min_length or max_length is treated as
\* absent: the filtered result with such a bound equals the filtered result
\* of the same criteria with that bound omitted.
C26_InvalidBoundAbsent ==
    pc = "omitted" => filtered_questions = narrowed

\* the question's text or one of its keywords contains the keyword, case
\* ignored
Mentions(q, keyword) ==
    \/ Contains(Lower(keyword), Lower(Get(q, "question", <<>>)))
    \/ \E i \in DOMAIN Get(q, "keywords", <<>>) :
            Contains(Lower(keyword), Lower(q["keywords"][i]))

\* the keywords that the raw criteria both include and exclude
Overlap(raw) ==
    IF "keywords" \in DOMAIN raw /\ "exclude_keywords" \in DOMAIN raw
    THEN Range(Split(raw["keywords"].v, {",", ";"}))
            \cap Range(Split(raw["exclude_keywords"].v, {",", ";"}))
    ELSE {}

\* C24: when a keyword is in both the include and the exclude keyword sets,
\* exclusion wins: no question whose text or keywords contain it is in the
\* result of apply_filters, and normalisation leaves it in both sets.
C24_ExclusionWins ==
    (pc = "selected" /\ outcome = "returned") =>
        \A keyword \in Overlap(criteria) :
            /\ keyword \in Range(parsed_criteria["keywords"])
            /\ keyword \in Range(parsed_criteria["exclude_keywords"])
            /\ \A i \in DOMAIN filtered_questions :
                    ~Mentions(filtered_questions[i], keyword)

\* C24's case: 'sum' is included and excluded, a loaded question that mentions
\* it is left out, and one that mentions only the other included keyword stays.
C24_Witness ==
    /\ pc = "selected" /\ outcome = "returned"
    /\ s_sum \in Overlap(criteria)
    /\ \E i \in DOMAIN questions : Mentions(questions[i], s_sum)
    /\ Len(filtered_questions) = 1

ScoringKeys == {"topic", "keywords", "difficulty", "type", "reference_text"}

\* C25: every relevance score that score_questions assigns lies in [0, 1], and
\* is exactly 0.5 when the criteria contain none of topic, keywords,
\* difficulty, type and reference text.
C25_ScoreRange ==
    (pc = "selected" /\ outcome = "returned") =>
        /\ Len(selected_questions) = Len(filtered_questions)
        /\ \A i \in DOMAIN selected_questions :
            LET score == selected_questions[i]["relevance_score"]
            IN  /\ ~RatLess(score, Rat(0, 1))
                /\ ~RatLess(Rat(1, 1), score)
                /\ (DOMAIN criteria) \cap ScoringKeys = {} => score = Rat(1, 2)

\* C25's case: two questions scored 0.5 under criteria that hold only a
\* length bound
C25_Witness ==
    /\ pc = "selected" /\ outcome = "returned"
    /\ DOMAIN criteria = {"min_length"}
    /\ Len(selected_questions) = 2
    /\ \A i \in DOMAIN selected_questions :
            selected_questions[i]["relevance_score"] = Rat(1, 2)

(***************************************************************************)
(* Claims about select_questions, checked under Spec                       *)
(***************************************************************************)

\* criteria.get('count', self.default_count) of the call just made
TargetCount == Get(parsed_criteria, "count", default_count)

\* criteria.get('diversity', True) of the call just made
DiversityEnabled == Get(parsed_criteria, "diversity", TRUE)

\* the criteria of the call just made name none of these filtering keys
NoneOf(keys) == (DOMAIN criteria) \cap keys = {}

\* C1: for every loaded pool and every criteria, select_questions returns at
\* most count questions (the normalised target count, 20 when not given), and
\* with diversity disabled exactly min(count, number of questions that survive
\* filtering).
C1_CountContract ==
    pc = "selected" =>
        /\ outcome = "returned"
        /\ Len(selected_questions) <= TargetCount
        /\ (~DiversityEnabled =>
                Len(selected_questions) = Min(TargetCount, Len(filtered_questions)))

\* C2: when the pool holds a question whose difficulty is in the requested set
\* D, select_questions(difficulty=D) completes and returns a non-empty list of
\* questions whose difficulty is in D.
C2_DifficultySelection ==
    (/\ pc = "selected"
     /\ "difficulty" \in DOMAIN criteria
     /\ NoneOf({"topic", "type", "keywords"})
     /\ \E i \in DOMAIN questions :
            Lower(questions[i]["difficulty"]) \in Range(parsed_criteria["difficulty"]))
    => /\ outcome = "returned"
       /\ selected_questions # <<>>
       /\ \A i \in DOMAIN selected_questions :
            Lower(selected_questions[i]["difficulty"]) \in Range(parsed_criteria["difficulty"])

\* the question's topic contains one of the terms or is contained in one of
\* them, case-insensitively
TopicMatches(q, terms) ==
    \E i \in DOMAIN terms :
        \/ Contains(Lower(terms[i]), Lower(q["topic"]))
        \/ Contains(Lower(q["topic"]), Lower(terms[i]))

\* the call just made gave a topic criterion that names at least one term
TopicRequested ==
    /\ pc = "selected"
    /\ "topic" \in DOMAIN criteria
    /\ parsed_criteria["topic"] # <<>>

TopicsOf(qs) == {qs[i]["topic"] : i \in DOMAIN qs}

\* a diversity-enabled call returned, and the candidates that survived
\* filtering span no more topics than the target count
DiverseCase ==
    /\ pc = "selected"
    /\ outcome = "returned"
    /\ DiversityEnabled
    /\ Cardinality(TopicsOf(filtered_questions)) <= TargetCount

\* all the candidates have the same relevance score, difficulty and type
Uniform(qs, c) ==
    \A i, j \in DOMAIN qs :
        /\ _calculate_relevance_score(qs[i], c).v = _calculate_relevance_score(qs[j], c).v
        /\ qs[i]["difficulty"] = qs[j]["difficulty"]
        /\ qs[i]["type"] = qs[j]["type"]

\* C10 as stated: with diversity enabled, if the filtered candidates span k
\* distinct topics and the target count is at least k, the selection returned
\* by select_questions contains at least one question of each of the k topics.
C10_DiversityCoversTopics ==
    DiverseCase => TopicsOf(filtered_questions) \subseteq TopicsOf(selected_questions)

\* C10 amended: with diversity enabled, if the filtered candidates span k
\* distinct topics, the target count is at least k, and all the candidates have
\* the same relevance score, difficulty and type, the selection returned by
\* select_questions contains at least one question of each of the k topics.
C10_DiversityCoversTopicsUniform ==
    (DiverseCase /\ Uniform(filtered_questions, parsed_criteria))
    => TopicsOf(filtered_questions) \subseteq TopicsOf(selected_questions)

\* C10's case: more candidates than the target count, of two topics and one
\* relevance score, difficulty and type, and both topics are in the selection.
C10_Witness ==
    /\ DiverseCase
    /\ Uniform(filtered_questions, parsed_criteria)
    /\ Len(filtered_questions) > TargetCount
    /\ Cardinality(TopicsOf(filtered_questions)) = 2
    /\ TopicsOf(selected_questions) = TopicsOf(filtered_questions)

\* the relevance score of the i-th candidate that survived filtering
CandidateScore(i) ==
    _calculate_relevance_score(filtered_questions[i], parsed_criteria).v

\* candidate j comes before candidate i: it has a higher relevance score, or
\* the same score and an earlier place in the filtered pool
Before(j, i) ==
    \/ RatLess(CandidateScore(i), CandidateScore(j))
    \/ (CandidateScore(j) = CandidateScore(i) /\ j < i)

\* the place of candidate i in that order
RankOf(i) == 1 + Cardinality({j \in DOMAIN filtered_questions : Before(j, i)})

\* a call with diversity disabled returned, and more candidates survived
\* filtering than the target count
TopCase ==
    /\ pc = "selected"
    /\ outcome = "returned"
    /\ ~DiversityEnabled
    /\ Len(filtered_questions) > TargetCount

\* C20: with diversity disabled and more candidates than the target count, the
\* selection is the first target-count elements of the candidates sorted by
\* relevance score in descending order, candidates of equal score keeping
\* their order in the filtered pool.
C20_TopByRelevance ==
    TopCase =>
        /\ Len(selected_questions) = TargetCount
        /\ \A i \in DOMAIN filtered_questions :
                RankOf(i) <= TargetCount =>
                    selected_questions[RankOf(i)] =
                        Put(filtered_questions[i], "relevance_score", CandidateScore(i))

\* C20's case: the selection holds a candidate that overtook an earlier one
\* of lower score, and two candidates of equal score in their pool order.
C20_Witness ==
    /\ TopCase
    /\ \E i, j \in DOMAIN filtered_questions :
            /\ i < j
            /\ RatLess(CandidateScore(i), CandidateScore(j))
            /\ RankOf(j) <= TargetCount
            /\ RankOf(i) > TargetCount
    /\ \E i, j \in DOMAIN filtered_questions :
            /\ i < j
            /\ CandidateScore(i) = CandidateScore(j)
            /\ RankOf(j) <= TargetCount

\* a call with diversity enabled returned, and more candidates survived
\* filtering than the target count
GreedyCase ==
    /\ pc = "selected"
    /\ outcome = "returned"
    /\ DiversityEnabled
    /\ Len(filtered_questions) > TargetCount

\* C30: with diversity enabled and more candidates than the target count, the
\* first question chosen has the maximum relevance score of all candidates and
\* is the earliest candidate of that score in the order of the filtered pool.
C30_FirstChosenMostRelevant ==
    GreedyCase =>
        \A i \in DOMAIN filtered_questions :
            RankOf(i) = 1 =>
                selected_questions[1] =
                    Put(filtered_questions[i], "relevance_score", CandidateScore(i))

\* C30's case: two different candidates share the maximum score and the
\* earlier one was chosen first, after a candidate of lower score that stands
\* before both in the filtered pool.
C30_Witness ==
    /\ GreedyCase
    /\ \E h, i, j \in DOMAIN filtered_questions :
            /\ h < i /\ i < j
            /\ RatLess(CandidateScore(h), CandidateScore(i))
            /\ RankOf(i) = 1
            /\ CandidateScore(j) = CandidateScore(i)
            /\ selected_questions[1]["id"] = filtered_questions[i]["id"]
            /\ selected_questions[1]["id"] # filtered_questions[j]["id"]

(***************************************************************************)
(* EnhancedQuestionSelector (enhanced_features.py)                         *)
(*                                                                         *)
(* A marks distribution, a dict from mark value (a str) to required count, *)
(* is modelled as the list of its items <<key, count>> in iteration order. *)
(***************************************************************************)

\* question.get('unit') or question.get('topic') or question.get('subject');
\* <<>> stands for a falsy result (None or '')
UnitOf(q) ==
    IF ~Falsy(q, "unit") THEN q["unit"]
    ELSE IF ~Falsy(q, "topic") THEN q["topic"]
    ELSE Get(q, "subject", <<>>)

\* int(question.get('marks', 2))
MarksOf(q) == Get(q, "marks", 2)

\* unit_questions: the loaded questions whose unit is truthy and is one of the
\* selected units, in pool order
UnitQuestions(qs, units) ==
    SelectSeq(qs, LAMBDA q : UnitOf(q) # <<>> /\ UnitOf(q) \in Range(units))

\* questions_by_marks[marks]; <<>> when marks is no key of it
QuestionsByMarks(uq, marks) == SelectSeq(uq, LAMBDA q : MarksOf(q) = marks)

\* marks_key = int(marks_value) of an item of the distribution
MarksKey(item) == PyInt(StrV(item[1])).v

\* f"{marks_key}_marks"
SummaryKey(marks_key) == PyStr(IntV(marks_key)) \o <<"_","m","a","r","k","s">>

\* the first band ends before 50 instead of at 50
DistributionBand_strict(marks) ==
    IF marks < 50
    THEN LET two_mark_count == Min(marks \div 2, 20)
         IN  <<two_mark_count, Max(0, (marks - two_mark_count * 2) \div 16)>>
    ELSE IF marks <= 100
    THEN LET sixteen_mark_count == Min(marks \div 20, 4)
         IN  <<(marks - sixteen_mark_count * 16) \div 2, sixteen_mark_count>>
    ELSE LET sixteen_mark_count == Min(marks \div 16, 6)
         IN  <<(marks - sixteen_mark_count * 16) \div 2, sixteen_mark_count>>

\* the three bands of _calculate_optimal_distribution: <<two_mark_count,
\* sixteen_mark_count>> before the final max()
DistributionBand(marks) ==
    IF marks <= 50
    THEN LET two_mark_count == Min(marks \div 2, 20)
         IN  <<two_mark_count, Max(0, (marks - two_mark_count * 2) \div 16)>>
    ELSE IF marks <= 100
    THEN LET sixteen_mark_count == Min(marks \div 20, 4)
         IN  <<(marks - sixteen_mark_count * 16) \div 2, sixteen_mark_count>>
    ELSE LET sixteen_mark_count == Min(marks \div 16, 6)
         IN  <<(marks - sixteen_mark_count * 16) \div 2, sixteen_mark_count>>

\* the sixteen-mark count is raised to at least 1, like the two-mark count
_calculate_optimal_distribution_atleast1(marks) ==
    << <<NatToStr(2), Max(1, DistributionBand(marks)[1])>>,
       <<NatToStr(16), Max(1, DistributionBand(marks)[2])>> >>

\* {'2': max(1, two_mark_count), '16': max(0, sixteen_mark_count)}
_calculate_optimal_distribution(marks) ==
    << <<NatToStr(2), Max(1, DistributionBand(marks)[1])>>,
       <<NatToStr(16), Max(0, DistributionBand(marks)[2])>> >>

\* a sample that may draw the same position more than once
Samples_repeat(population, k) ==
    { [i \in 1..k |-> population[f[i]]] : f \in [1..k -> DOMAIN population] }

\* random.sample(population, k): any k elements at distinct positions, in any
\* order
Samples(population, k) ==
    { [i \in 1..k |-> population[f[i]]] :
        f \in { g \in [1..k -> DOMAIN population] :
                    \A a, b \in 1..k : a # b => g[a] # g[b] } }

\* the `selected` lists that the passes of the loop over the distribution can
\* produce, one per item: a sample of the required count, or all the available
\* questions when there are fewer
RECURSIVE AllDraws(_, _)
AllDraws(uq, distribution) ==
    IF distribution = <<>> THEN {<<>>}
    ELSE LET available_questions == QuestionsByMarks(uq, MarksKey(distribution[1]))
             required_count == distribution[1][2]
         IN  { <<selected>> \o rest :
                    selected \in IF Len(available_questions) >= required_count
                                 THEN Samples(available_questions, required_count)
                                 ELSE {available_questions},
                    rest \in AllDraws(uq, Tail(distribution)) }

\* selected_questions.extend(selected), over all the passes
RECURSIVE Extend(_)
Extend(drawn) == IF drawn = <<>> THEN <<>> ELSE Head(drawn) \o Extend(Tail(drawn))

\* actual_marks += marks_key * len(selected), over all the passes
RECURSIVE ActualMarks(_, _)
ActualMarks(distribution, drawn) ==
    IF distribution = <<>> THEN 0
    ELSE MarksKey(distribution[1]) * Len(drawn[1])
            + ActualMarks(Tail(distribution), Tail(drawn))

\* selection_summary after the passes over distribution: a pass writes its
\* entry only when marks_key is a key of questions_by_marks
RECURSIVE SelectionSummary(_, _, _, _)
SelectionSummary(uq, distribution, drawn, summary) ==
    IF distribution = <<>> THEN summary
    ELSE SelectionSummary(uq, Tail(distribution), Tail(drawn),
            IF QuestionsByMarks(uq, MarksKey(distribution[1])) = <<>> THEN summary
            ELSE Put(summary, SummaryKey(MarksKey(distribution[1])), Len(drawn[1])))

\* the dict returned after the passes drew `drawn`
Returned(uq, units, distribution, drawn, summary) ==
    [questions      |-> Extend(drawn),
     total_marks    |-> ActualMarks(distribution, drawn),
     distribution   |-> summary,
     choice_options |-> IF Get(summary, SummaryKey(16), 0) > 0 THEN 2 ELSE 0,
     units_covered  |-> units]

\* the calls that never raise for want of candidates
SelectDrawn_noraise(uq, units, distribution) ==
    { [exc |-> "none", distribution |-> distribution, draws |-> drawn,
       result |-> Returned(uq, units, distribution, drawn,
                           SelectionSummary(uq, distribution, drawn, Empty))] :
        drawn \in AllDraws(uq, distribution) }

\* the outcomes of the call once unit_questions and the distribution in use
\* are known: ValueError when unit_questions is empty, else one outcome per
\* possible drawing
SelectDrawn(uq, units, distribution) ==
    IF uq = <<>>
    THEN { [exc |-> "ValueError", distribution |-> <<>>, draws |-> <<>>, result |-> Empty] }
    ELSE { [exc |-> "none", distribution |-> distribution, draws |-> drawn,
            result |-> Returned(uq, units, distribution, drawn,
                                SelectionSummary(uq, distribution, drawn, Empty))] :
            drawn \in AllDraws(uq, distribution) }

\* the distribution is computed only when the argument is None
select_questions_by_units_and_marks_isnone(qs, units, marks, distribution) ==
    SelectDrawn(UnitQuestions(qs, units), units,
                IF distribution = NoneV THEN _calculate_optimal_distribution(marks)
                ELSE distribution.v)

\* select_questions_by_units_and_marks(selected_units, total_marks,
\* marks_distribution): the set of its possible outcomes.  `if not
\* marks_distribution` holds of None and of an empty dict.
select_questions_by_units_and_marks(qs, units, marks, distribution) ==
    SelectDrawn(UnitQuestions(qs, units), units,
                IF distribution.v = <<>> THEN _calculate_optimal_distribution(marks)
                ELSE distribution.v)

\* The characters of unit names in code-point order: Python compares str values
\* character by character by code point.
CodePointOrder == Digits \o UpperChars \o <<"_">> \o LowerChars

Ord(ch) == CHOOSE i \in DOMAIN CodePointOrder : CodePointOrder[i] = ch

\* a < b for two str values
RECURSIVE StrLess(_, _)
StrLess(a, b) ==
    IF a = <<>> THEN b # <<>>
    ELSE IF b = <<>> THEN FALSE
    ELSE IF Head(a) = Head(b) THEN StrLess(Tail(a), Tail(b))
    ELSE Ord(Head(a)) < Ord(Head(b))

\* sorted(list(units)) of a set of str values
RECURSIVE SortedStrings(_)
SortedStrings(units) ==
    IF units = {} THEN <<>>
    ELSE LET least == CHOOSE x \in units : \A y \in units \ {x} : StrLess(x, y)
         IN  <<least>> \o SortedStrings(units \ {least})

\* the units in the order in which the loaded questions name them, each once
RECURSIVE get_available_units_unsorted(_)
get_available_units_unsorted(qs) ==
    IF qs = <<>> THEN <<>>
    ELSE LET rest == get_available_units_unsorted(SubSeq(qs, 1, Len(qs) - 1))
             unit == UnitOf(qs[Len(qs)])
         IN  IF unit = <<>> \/ unit \in Range(rest) THEN rest ELSE Append(rest, unit)

\* get_available_units(): the truthy units of the loaded questions, sorted
get_available_units(qs) ==
    SortedStrings({UnitOf(qs[i]) : i \in DOMAIN qs} \ {<<>>})

(***************************************************************************)
(* Specification of the EnhancedQuestionSelector: a bank is loaded, then   *)
(* select_questions_by_units_and_marks is called.                          *)
(***************************************************************************)

u_1 == <<"U","1">>
u_2 == <<"U","2">>

\* Questions of a unit bank: with a unit and marks, with the unit under
\* 'topic' and no marks (2 by default), with an empty unit and a subject.
UnitProfiles ==
    << [question |-> t_add, unit |-> u_1, marks |-> 2],
       [question |-> t_quantum, unit |-> u_1, marks |-> 16],
       [question |-> t_paris, topic |-> u_2],
       [question |-> t_sets, unit |-> <<>>, subject |-> u_2, marks |-> 16] >>

\* A unit bank holds at most MaxUnitPool questions.
MaxUnitPool == 3

\* The example pool: 15 two-mark and 15 sixteen-mark questions of one unit.
ExamplePool ==
    [i \in 1..30 |-> [id |-> i, question |-> t_add, unit |-> u_1,
                      marks |-> IF i <= 15 THEN 2 ELSE 16]]

UnitBanks == BanksOf(UnitProfiles, MaxUnitPool) \cup {ExamplePool}

UnitSelections == {<<>>, <<u_1>>, <<u_2>>, <<u_1, u_2>>}

\* total_marks ranges over 0..MaxTotal.
MaxTotal == 112

\* Supplied distributions: {'2': 1}, {'2': 2, '16': 1}, {'16': 2}, {'5': 1},
\* {'2': 0} and {'2': 1, '02': 1}.
SuppliedDistributions ==
    { << <<NatToStr(2), 1>> >>,
      << <<NatToStr(2), 2>>, <<NatToStr(16), 1>> >>,
      << <<NatToStr(16), 2>> >>,
      << <<NatToStr(5), 1>> >>,
      << <<NatToStr(2), 0>> >>,
      << <<NatToStr(2), 1>>, <<<<"0","2">>, 1>> >> }

\* The calls made on a bank.  The example pool is called as in the example
\* (total_marks = 100, no distribution); a supplied distribution, the empty
\* one included, comes with the least and the greatest total_marks.
CallsFor(bank) ==
    IF bank = ExamplePool
    THEN { [units |-> <<u_1>>, marks |-> 100, distribution |-> NoneV] }
    ELSE { [units |-> u, marks |-> t, distribution |-> NoneV] :
                u \in UnitSelections, t \in 0..MaxTotal }
         \cup { [units |-> u, marks |-> t, distribution |-> DictV(d)] :
                u \in UnitSelections, t \in {0, MaxTotal},
                d \in SuppliedDistributions \cup {<<>>} }

\* The calls made with units taken from the list that get_available_units
\* returned: every non-empty list of distinct available units, in any order,
\* with the least and (but for the example pool) the greatest total_marks.
CallsAmong(bank, units) ==
    { [units |-> u, marks |-> t, distribution |-> NoneV] :
        u \in { v \in UNION { [1..n -> Range(units)] : n \in 1..Len(units) } :
                    \A i, j \in DOMAIN v : i # j => v[i] # v[j] },
        t \in IF bank = ExamplePool THEN {0} ELSE {0, MaxTotal} }

InitMarks ==
    /\ Idle
    /\ criteria = Empty
    /\ pc = "init"

\* EnhancedQuestionSelector.get_available_units()
GetAvailableUnits ==
    /\ pc \in {"init", "loaded"}
    /\ available_units' = get_available_units(unit_bank)
    /\ pc' = "units"
    /\ UNCHANGED <<questions, question_index, criteria, parsed_criteria,
                   filtered_questions, refiltered, narrowed_criteria, narrowed,
                   selected_questions, outcome, bank_vars, marks_vars,
                   custom_filters, filter_calls, diverse_target>>

\* EnhancedQuestionSelector.load_questions(bank)
LoadUnitQuestions ==
    /\ pc \in {"init", "loaded"}
    /\ \E bank \in UnitBanks : unit_bank' = bank
    /\ pc' = "loaded"
    /\ UNCHANGED <<questions, question_index, criteria, parsed_criteria,
                   filtered_questions, refiltered, narrowed_criteria, narrowed,
                   selected_questions, outcome, bank_vars, selected_units, total_marks,
                   supplied, marks_distribution, draws, result>>
    /\ UNCHANGED extra_vars

SelectByUnitsAndMarks ==
    /\ pc \in {"init", "loaded", "units"}
    /\ \E call \in IF pc = "units" THEN CallsAmong(unit_bank, available_units) ELSE CallsFor(unit_bank) :
        \E r \in select_questions_by_units_and_marks(unit_bank, call.units, call.marks,
                                                     call.distribution) :
            /\ selected_units' = call.units
            /\ total_marks' = call.marks
            /\ supplied' = call.distribution
            /\ marks_distribution' = r.distribution
            /\ draws' = r.draws
            /\ result' = r.result
            /\ outcome' = IF r.exc = "none" THEN "returned" ELSE r.exc
    /\ pc' = "selected"
    /\ UNCHANGED <<questions, question_index, criteria, parsed_criteria,
                   filtered_questions, refiltered, narrowed_criteria, narrowed,
                   selected_questions, bank_vars, unit_bank>>
    /\ UNCHANGED extra_vars

NextMarks ==
    \/ LoadUnitQuestions
    \/ GetAvailableUnits
    \/ SelectByUnitsAndMarks

SpecMarks == InitMarks /\ [][NextMarks]_vars

(***************************************************************************)
(* Claims about select_questions_by_units_and_marks                        *)
(***************************************************************************)

\* the call just made returned
MarksReturned == pc = "selected" /\ outcome = "returned" /\ result # Empty

\* the counts the distribution in use requires of two-mark and sixteen-mark
\* questions
RequiredTwo == marks_distribution[1][2]
RequiredSixteen == marks_distribution[2][2]

\* the distribution of two and sixteen, two raised to at least 1 and sixteen
\* to at least 0
Raised(two, sixteen) ==
    << <<NatToStr(2), Max(1, two)>>, <<NatToStr(16), Max(0, sixteen)>> >>

\* C13: when no distribution is supplied, the computed one is, for T =
\* total_marks: T <= 50: two = min(T div 2, 20), sixteen = max(0, (T - 2*two)
\* div 16); 51 <= T <= 100: sixteen = min(T div 20, 4), two = (T - 16*sixteen)
\* div 2; T > 100: sixteen = min(T div 16, 6), two = (T - 16*sixteen) div 2;
\* and then two is raised to at least 1 and sixteen to at least 0.
C13_ComputedDistribution ==
    (MarksReturned /\ supplied = NoneV) =>
        /\ total_marks <= 50 =>
                marks_distribution =
                    Raised(Min(total_marks \div 2, 20),
                           Max(0, (total_marks - 2 * Min(total_marks \div 2, 20)) \div 16))
        /\ (51 <= total_marks /\ total_marks <= 100) =>
                marks_distribution =
                    Raised((total_marks - 16 * Min(total_marks \div 20, 4)) \div 2,
                           Min(total_marks \div 20, 4))
        /\ total_marks > 100 =>
                marks_distribution =
                    Raised((total_marks - 16 * Min(total_marks \div 16, 6)) \div 2,
                           Min(total_marks \div 16, 6))

\* C13's case: a total above 100 whose sixteen-mark count is capped at 6, the
\* two-mark questions taking the 16 marks that remain.
C13_Witness ==
    /\ MarksReturned
    /\ supplied = NoneV
    /\ total_marks > 100
    /\ total_marks \div 16 > 6
    /\ RequiredSixteen = 6
    /\ RequiredTwo = (total_marks - 96) \div 2

\* some loaded question has its unit (or, without one, its topic, or else its
\* subject) among the selected units
SomeUnitSelected ==
    \E i \in DOMAIN unit_bank :
        \E k \in DOMAIN selected_units : selected_units[k] = UnitOf(unit_bank[i])

\* C12: select_questions_by_units_and_marks raises the no-candidates error
\* (ValueError) whenever no loaded question has its unit, or topic/subject
\* fallback, in the selected-unit set; in particular an empty unit selection
\* on any non-empty pool raises it.
C12_NoCandidatesRaises ==
    (pc = "selected" /\ ~SomeUnitSelected) => outcome = "ValueError"

\* C12's case: a call with an empty unit selection on a non-empty pool raised.
C12_Witness ==
    /\ pc = "selected"
    /\ unit_bank # <<>>
    /\ selected_units = <<>>
    /\ outcome = "ValueError"

\* q belongs to the unit-restricted pool and carries `marks` marks
Candidate(q, marks) ==
    /\ UnitOf(q) # <<>>
    /\ \E k \in DOMAIN selected_units : selected_units[k] = UnitOf(q)
    /\ MarksOf(q) = marks

\* the number of such questions in the loaded bank
Available(marks) ==
    Cardinality({i \in DOMAIN unit_bank : Candidate(unit_bank[i], marks)})

\* C15: for each (mark value m, required count r) of the distribution in use,
\* the questions drawn for it are pairwise distinct members of the
\* unit-restricted pool with marks m, and their number is min(r, number of
\* such questions).  With 15 two-mark and 15 sixteen-mark questions in the
\* selected units, total_marks = 100 and no distribution, 15 two-mark and 4
\* sixteen-mark questions are drawn and the achieved total is 94.
C15_DrawnPerMarkValue ==
    MarksReturned =>
        /\ \A k \in DOMAIN marks_distribution :
            /\ \A a, b \in DOMAIN draws[k] : a # b => draws[k][a] # draws[k][b]
            /\ \A a \in DOMAIN draws[k] :
                /\ \E i \in DOMAIN unit_bank : unit_bank[i] = draws[k][a]
                /\ Candidate(draws[k][a], MarksKey(marks_distribution[k]))
            /\ Len(draws[k]) =
                    Min(marks_distribution[k][2], Available(MarksKey(marks_distribution[k])))
        /\ (unit_bank = ExamplePool /\ total_marks = 100 /\ supplied = NoneV) =>
            /\ Len(draws[1]) = 15
            /\ Len(draws[2]) = 4
            /\ Len(result.questions) = 19
            /\ result.total_marks = 94

\* C15's case: the example, with the four sixteen-mark questions drawn out of
\* pool order.
C15_Witness ==
    /\ MarksReturned
    /\ unit_bank = ExamplePool
    /\ Available(2) = 15
    /\ Available(16) = 15
    /\ Len(draws[1]) = 15
    /\ Len(draws[2]) = 4
    /\ draws[2][1]["id"] > draws[2][2]["id"]
    /\ result.total_marks = 94

\* the mark value that a key "<m>_marks" of the returned distribution map names
MarkValueOf(key) == PyInt(StrV(SubSeq(key, 1, Len(key) - 6))).v

\* the sum, over the entries of a returned distribution map whose keys are
\* `keys`, of mark value times count reported
RECURSIVE ReportedMarks(_, _)
ReportedMarks(summary, keys) ==
    IF keys = {} THEN 0
    ELSE LET key == CHOOSE k \in keys : TRUE
         IN  MarkValueOf(key) * summary[key] + ReportedMarks(summary, keys \ {key})

\* C14: the achieved total marks returned equals the sum, over the entries of
\* the returned distribution map, of mark value times count reported for that
\* mark value, for every distribution, supplied or computed.
C14_TotalMatchesDistribution ==
    MarksReturned =>
        result.total_marks = ReportedMarks(result.distribution, DOMAIN result.distribution)

\* C16: a shortfall never raises and is visible in the result: for every mark
\* value requested, the returned distribution map holds an entry giving the
\* number actually drawn, which is smaller than requested exactly when too few
\* candidates exist (none at all included).
C16_ShortfallReported ==
    (pc = "selected" /\ SomeUnitSelected) =>
        /\ outcome = "returned"
        /\ \A k \in DOMAIN marks_distribution :
            LET key == SummaryKey(MarksKey(marks_distribution[k]))
            IN  /\ key \in DOMAIN result.distribution
                /\ result.distribution[key] = Len(draws[k])
                /\ (result.distribution[key] < marks_distribution[k][2]
                        <=> Available(MarksKey(marks_distribution[k]))
                                < marks_distribution[k][2])

(***************************************************************************)
(* Specification of the question bank of the QuestionSelector: banks are   *)
(* loaded one after the other, get_statistics and select_questions are     *)
(* called on what is loaded.                                               *)
(***************************************************************************)

w_unknown == <<"u","n","k","n","o","w","n">>

\* load_questions(bank) that appends to the bank already loaded
load_questions_extend(old, bank) ==
    [questions      |-> old \o _classify_questions(bank),
     question_index |-> IndexOf(old \o _classify_questions(bank))]

\* load_questions(bank): the new values of questions and question_index; old
\* is the list loaded before
load_questions(old, bank) ==
    [questions      |-> _classify_questions(bank),
     question_index |-> IndexOf(_classify_questions(bank))]

\* a defaultdict(int) counted over question.get(key, 'unknown')
CountBy(qs, key) ==
    [v \in {Get(qs[i], key, w_unknown) : i \in DOMAIN qs} |->
        Cardinality({i \in DOMAIN qs : Get(qs[i], key, w_unknown) = v})]

\* the questions without a type are left out of the type counts
get_statistics_typed(qs) ==
    IF qs = <<>> THEN Empty
    ELSE [total_questions |-> Len(qs),
          topics          |-> CountBy(qs, "topic"),
          difficulties    |-> CountBy(qs, "difficulty"),
          types           |-> CountBy(SelectSeq(qs, LAMBDA q : "type" \in DOMAIN q), "type")]

get_statistics(qs) ==
    IF qs = <<>> THEN Empty
    ELSE [total_questions |-> Len(qs),
          topics          |-> CountBy(qs, "topic"),
          difficulties    |-> CountBy(qs, "difficulty"),
          types           |-> CountBy(qs, "type")]

\* Questions as a parser can hand them over: with complete metadata, with
\* none, with topic and difficulty but no type, with an empty topic.
LoadProfiles ==
    << Profiles[1],
       [question |-> t_paris],
       [question |-> t_quantum, topic |-> s_physics, difficulty |-> w_hard],
       [question |-> t_sets, topic |-> <<>>, difficulty |-> w_easy, type |-> w_numeric] >>

\* A bank to load holds at most MaxLoad questions.
MaxLoad == 2

\* a bank in which two questions share an id
TwinBank == <<WithId(LoadProfiles[1], 1), WithId(LoadProfiles[2], 1)>>

LoadBanks == BanksOf(LoadProfiles, MaxLoad) \cup {TwinBank}

LoadCriteria ==
    { Empty,
      [count |-> IntV(1)],
      [count |-> IntV(1), diversity |-> BoolV(FALSE)],
      [topic |-> StrV(w_general)],
      [type |-> StrV(w_text)] }

InitLoad ==
    /\ Idle
    /\ criteria = Empty
    /\ pc = "init"

\* selector.load_questions(bank)
LoadBank ==
    /\ pc \in {"init", "loaded", "stats"}
    /\ \E bank \in LoadBanks :
        /\ loaded_bank' = bank
        /\ questions' = load_questions(questions, bank).questions
        /\ question_index' = load_questions(questions, bank).question_index
    /\ pc' = "loaded"
    /\ UNCHANGED <<criteria, parsed_criteria, filtered_questions, refiltered,
                   narrowed_criteria, narrowed, selected_questions, outcome, statistics,
                   marks_vars>>
    /\ UNCHANGED extra_vars

\* selector.get_statistics()
GetStatistics ==
    /\ pc \in {"init", "loaded"}
    /\ statistics' = get_statistics(questions)
    /\ pc' = "stats"
    /\ UNCHANGED <<questions, question_index, criteria, parsed_criteria,
                   filtered_questions, refiltered, narrowed_criteria, narrowed,
                   selected_questions, outcome, loaded_bank, marks_vars>>
    /\ UNCHANGED extra_vars

\* selector.select_questions(**raw) on the loaded bank
SelectFromBank ==
    /\ pc \in {"init", "loaded"}
    /\ \E raw \in LoadCriteria :
        LET r == select_questions(questions, raw)
        IN  /\ criteria' = raw
            /\ parsed_criteria' = r.parsed
            /\ filtered_questions' = r.filtered
            /\ selected_questions' = r.v
            /\ outcome' = IF r.exc = "none" THEN "returned" ELSE r.exc
    /\ pc' = "selected"
    /\ UNCHANGED <<questions, question_index, refiltered, narrowed_criteria, narrowed,
                   bank_vars, marks_vars>>
    /\ UNCHANGED extra_vars

NextLoad ==
    \/ LoadBank
    \/ GetStatistics
    \/ SelectFromBank

SpecLoad == InitLoad /\ [][NextLoad]_vars

(***************************************************************************)
(* Claims about the question bank                                          *)
(***************************************************************************)

MetadataKeys == {"topic", "difficulty", "type"}

\* C17: after load_questions every question in the pool has a non-empty
\* topic, difficulty and type; a field that was missing is backfilled from the
\* classifier and a field that was present is unchanged.
C17_MetadataComplete ==
    pc = "loaded" =>
        \A i \in DOMAIN questions : \A key \in MetadataKeys :
            /\ ~Falsy(questions[i], key)
            /\ IF Falsy(loaded_bank[i], key)
               THEN questions[i][key] = classify_question(questions[i]["question"])[key]
               ELSE questions[i][key] = loaded_bank[i][key]

\* the ids of a list of questions
IdsOf(qs) == {qs[i]["id"] : i \in DOMAIN qs}

\* a selected question without the score that scoring added to its copy
Unscored(q) == [key \in (DOMAIN q) \ {"relevance_score"} |-> q[key]]

\* C18: loading replaces the bank wholesale: after any sequence of loads
\* ending with load_questions(B) the pool is exactly B (question for question,
\* in order) and the id index has exactly the ids of B, one entry per question
\* when the ids are unique, so later select_questions and get_statistics
\* results are drawn only from B.
C18_LoadReplaces ==
    /\ Len(questions) = Len(loaded_bank)
    /\ \A i \in DOMAIN questions :
        /\ questions[i]["id"] = loaded_bank[i]["id"]
        /\ questions[i]["question"] = loaded_bank[i]["question"]
    /\ DOMAIN question_index = IdsOf(loaded_bank)
    /\ Cardinality(IdsOf(loaded_bank)) = Len(loaded_bank) =>
            \A i \in DOMAIN questions : question_index[questions[i]["id"]] = questions[i]
    /\ (pc = "selected" /\ outcome = "returned") =>
            \A j \in DOMAIN selected_questions :
                \E i \in DOMAIN questions : Unscored(selected_questions[j]) = questions[i]
    /\ (pc = "stats" /\ loaded_bank # <<>>) =>
            /\ statistics["total_questions"] = Len(loaded_bank)
            /\ DOMAIN statistics["topics"] = {questions[i]["topic"] : i \in DOMAIN questions}

\* C18's case: a bank was loaded and counted, a smaller bank was loaded after
\* it, and a selection made then returned questions of the smaller bank.
C18_Witness ==
    /\ pc = "selected"
    /\ outcome = "returned"
    /\ statistics # Empty
    /\ statistics["total_questions"] > Len(loaded_bank)
    /\ selected_questions # <<>>
    /\ \A j \in DOMAIN selected_questions :
            selected_questions[j]["id"] \in IdsOf(loaded_bank)

StatisticsKeys == {"total_questions", "topics", "difficulties", "types"}

\* the sum of the counts of a count map over `keys`
RECURSIVE SumOf(_, _)
SumOf(counts, keys) ==
    IF keys = {} THEN 0
    ELSE LET key == CHOOSE k \in keys : TRUE
         IN  counts[key] + SumOf(counts, keys \ {key})

\* the record returned holds a total and the three count maps, the total is
\* the pool size and each count map sums to the total
StatisticsSound ==
    /\ DOMAIN statistics = StatisticsKeys
    /\ statistics["total_questions"] = Len(questions)
    /\ \A key \in {"topics", "difficulties", "types"} :
            SumOf(statistics[key], DOMAIN statistics[key]) = statistics["total_questions"]

\* C19 as stated: for every loaded pool, get_statistics returns a record with
\* a total and per-topic, per-difficulty and per-type counts, where the total
\* equals the pool size and each count map sums to the total.
C19_Statistics == pc = "stats" => StatisticsSound

\* C19 amended: for every non-empty loaded pool, get_statistics returns a
\* record with a total and per-topic, per-difficulty and per-type counts,
\* where the total equals the pool size and each count map sums to the total.
C19_StatisticsNonEmpty == (pc = "stats" /\ questions # <<>>) => StatisticsSound

\* C19's case: statistics of a pool of two questions, one of them without a
\* type, counted under 'unknown'.
C19_Witness ==
    /\ pc = "stats"
    /\ Len(questions) = 2
    /\ StatisticsSound
    /\ w_unknown \in DOMAIN statistics["types"]
    /\ Cardinality(DOMAIN statistics["types"]) = 2

(***************************************************************************)
(* Scenario A: a pool of 20 questions in 4 topics, 5 per topic, all of     *)
(* medium difficulty and of one type; select_questions(topic=[t1, t2],     *)
(* count=6, diversity=True).                                               *)
(***************************************************************************)

ScenarioTopics == <<s_mathematics, s_physics, s_geography, s_quantum>>

\* the orders in which the four topics can come
TopicOrders ==
    { o \in [DOMAIN ScenarioTopics -> DOMAIN ScenarioTopics] :
        \A a, b \in DOMAIN ScenarioTopics : a # b => o[a] # o[b] }

ScenarioQuestion(id, topic) ==
    [id |-> id, question |-> t_add, topic |-> topic, difficulty |-> w_medium,
     type |-> w_text]

\* The pools: the topics in blocks of 5 questions, or taking turns, in every
\* order of the topics.
ScenarioPools ==
    { [i \in 1..20 |-> ScenarioQuestion(i, ScenarioTopics[o[((i - 1) \div 5) + 1]])] :
        o \in TopicOrders }
    \cup
    { [i \in 1..20 |-> ScenarioQuestion(i, ScenarioTopics[o[((i - 1) % 4) + 1]])] :
        o \in TopicOrders }

\* topic=[t1, t2] for every two different topics, count=6, diversity=True
ScenarioCriteria ==
    { [topic     |-> ListV(<<StrV(ScenarioTopics[ab[1]]), StrV(ScenarioTopics[ab[2]])>>),
       count     |-> IntV(6),
       diversity |-> BoolV(TRUE)] :
        ab \in { p \in (DOMAIN ScenarioTopics) \X (DOMAIN ScenarioTopics) : p[1] # p[2] } }

InitScenario ==
    /\ Idle
    /\ criteria = Empty
    /\ pc = "init"

\* selector.load_questions(pool)
LoadScenario ==
    /\ pc \in {"init", "loaded"}
    /\ \E pool \in ScenarioPools :
        /\ loaded_bank' = pool
        /\ questions' = load_questions(questions, pool).questions
        /\ question_index' = load_questions(questions, pool).question_index
    /\ pc' = "loaded"
    /\ UNCHANGED <<criteria, parsed_criteria, filtered_questions, refiltered,
                   narrowed_criteria, narrowed, selected_questions, outcome, statistics,
                   marks_vars>>
    /\ UNCHANGED extra_vars

\* selector.select_questions(topic=[t1, t2], count=6, diversity=True)
SelectScenario ==
    /\ pc = "loaded"
    /\ \E raw \in ScenarioCriteria :
        LET r == select_questions(questions, raw)
        IN  /\ criteria' = raw
            /\ parsed_criteria' = r.parsed
            /\ filtered_questions' = r.filtered
            /\ selected_questions' = r.v
            /\ outcome' = IF r.exc = "none" THEN "returned" ELSE r.exc
    /\ pc' = "selected"
    /\ UNCHANGED <<questions, question_index, refiltered, narrowed_criteria, narrowed,
                   bank_vars, marks_vars>>
    /\ UNCHANGED extra_vars

NextScenario ==
    \/ LoadScenario
    \/ SelectScenario

SpecScenarioA == InitScenario /\ [][NextScenario]_vars

\* the number of selected questions whose topic is `topic`
SelectedOf(topic) ==
    Cardinality({j \in DOMAIN selected_questions : selected_questions[j]["topic"] = topic})

\* the two topics that the call just made asked for
RequestedTopics == {criteria["topic"].v[k].v : k \in DOMAIN criteria["topic"].v}

\* C11: Scenario A: on a pool of 20 questions in 4 topics (5 per topic), all
\* of medium difficulty and of one type, select_questions(topic=[topic1,
\* topic2], count=6, diversity=true) returns exactly 6 questions, all of
\* topic1 or topic2, each of the two topics contributing between 2 and 4.
C11_ScenarioA ==
    pc = "selected" =>
        /\ outcome = "returned"
        /\ Len(selected_questions) = 6
        /\ \A j \in DOMAIN selected_questions :
                selected_questions[j]["topic"] \in RequestedTopics
        /\ \A topic \in RequestedTopics :
                2 <= SelectedOf(topic) /\ SelectedOf(topic) <= 4

\* C11's case: the pool lists its topics in blocks, the second topic asked
\* for comes first in it, and the six questions returned are three of each.
C11_Witness ==
    /\ pc = "selected"
    /\ outcome = "returned"
    /\ questions[1]["topic"] = questions[2]["topic"]
    /\ questions[1]["topic"] = criteria["topic"].v[2].v
    /\ Len(selected_questions) = 6
    /\ \A topic \in RequestedTopics : SelectedOf(topic) = 3

(***************************************************************************)
(* Further claims about select_questions_by_units_and_marks                *)
(***************************************************************************)

\* C27: when no distribution is supplied and total_marks >= 2, the achieved
\* total marks returned by select_questions_by_units_and_marks never exceeds
\* total_marks, whatever the pool.
C27_AchievedWithinTotal ==
    (MarksReturned /\ supplied.v = <<>> /\ total_marks >= 2) =>
        result.total_marks <= total_marks

\* C27's case: a call without a distribution drew two two-mark questions and
\* achieved the 4 marks asked for.
C27_Witness ==
    /\ MarksReturned
    /\ supplied = NoneV
    /\ total_marks = 4
    /\ Len(result.questions) = 2
    /\ result.total_marks = total_marks

\* the outcome of the call just made, as select_questions_by_units_and_marks
\* gives it
MarksOutcome ==
    [exc          |-> IF outcome = "returned" THEN "none" ELSE outcome,
     distribution |-> marks_distribution,
     draws        |-> draws,
     result       |-> result]

\* C29: a supplied distribution that is an empty mapping is treated like no
\* distribution: the call then draws according to the distribution computed
\* from total_marks, exactly as when the distribution argument is omitted.
C29_EmptyDistributionAsNone ==
    (pc = "selected" /\ supplied = DictV(<<>>)) =>
        /\ MarksOutcome \in
                select_questions_by_units_and_marks(unit_bank, selected_units,
                                                    total_marks, NoneV)
        /\ outcome = "returned" =>
                marks_distribution = _calculate_optimal_distribution(total_marks)

\* C29's case: a call with an empty distribution drew a sixteen-mark question
\* for the distribution computed from total_marks.
C29_Witness ==
    /\ MarksReturned
    /\ supplied = DictV(<<>>)
    /\ RequiredSixteen > 0
    /\ \E j \in DOMAIN result.questions : MarksOf(result.questions[j]) = 16

\* C28: the list returned by get_available_units is sorted ascending without
\* duplicates, and a call of select_questions_by_units_and_marks whose selected
\* units are a non-empty choice among that list never raises the no-candidates
\* error.
C28_AvailableUnitsSelectable ==
    /\ \A i, j \in DOMAIN available_units :
          i < j => StrLess(available_units[i], available_units[j])
    /\ (pc = "selected" /\ selected_units # <<>>
          /\ Range(selected_units) \subseteq Range(available_units)) =>
            outcome # "ValueError"

\* the bank names unit U2 before unit U1, both are listed in ascending order,
\* and the selection of U2 alone returned
C28_Witness ==
    /\ MarksReturned
    /\ UnitOf(unit_bank[1]) = u_2
    /\ available_units = <<u_1, u_2>>
    /\ selected_units = <<u_2>>

====
